---- MODULE Spec2Model ----
(***************************************************************************)
(* Bid-packet text parser of pbs-mvp (src/unnamed/part_000).               *)
(*                                                                         *)
(* Text is modelled as TLA+ strings read character by character; every     *)
(* regular expression of the source is an operator that scans the string   *)
(* as the regular expression does.  Three algorithms are modelled, each    *)
(* with its own specification:                                             *)
(*   MonthSpec  extractMonthYear  (pages, file name -> month, year)        *)
(*   DutySpec   parseDutyDays     (duty lines -> duty days)                *)
(*   SplitSpec  splitSequences    (page text -> sequence blocks)           *)
(* The en dash U+2013 of the source's character classes is written "~",    *)
(* TLA+ strings being ASCII; no input of the model holds a real tilde.     *)
(***************************************************************************)
EXTENDS Integers, Sequences, FiniteSets, TLC

VARIABLES
    \* extractMonthYear
    pages,        \* the page texts (argument)
    fileName,     \* the file name (argument)
    mIdx,         \* index of the page the for-loop is at
    mPc,          \* "scan" | "file" | "done"
    mResult,      \* the returned { month, year }
    mVia,         \* which return statement produced mResult (0 = none yet)
    \* parseDutyDays
    dLines,       \* the lines argument
    dIdx,         \* index of the line the for-loop is at
    dPc,          \* "loop" | "done"
    duties,       \* const duties: SequenceDutyDay[]
    current,      \* let current: <<>> is null, <<day>> an open day
    currentDayNumber, \* let currentDayNumber: string | null
    dSecondReports,   \* number of report lines met while the open day had a report
    dDayChanges,      \* number of leg lines met whose day-number disagreed
    \* splitSequences
    sRaw,         \* the raw lines the text argument is made of
    sText,        \* the text argument
    sLines,       \* const lines (trimmed, blank-filtered)
    sIdx,         \* index of the line the for-loop is at
    sPc,          \* "split" | "loop" | "done"
    sequences,    \* const sequences: string[][]
    sCurrent,     \* let current: string[]
    \* one call of a function that has no loop of its own worth stepping
    fn,           \* the name of the function called
    arg,          \* its argument
    locals,       \* the constants of its body that the return value does not hold
    ret,          \* <<>> before the return, <<value>> after
    \* parseBidPdf
    rawItems,     \* the lines and form feeds pdf.text is made of
    rawText,      \* const rawText
    pPages,       \* const pages
    pIdx,         \* index of the page the for-loop is at
    pPc,          \* "pages" | "loop" | "map" | "done"
    pSequences,   \* const sequences: SequenceRecord[]
    uploadSequences, \* const uploadSequences
    \* concurrent calls of parseBidPdf in one process
    cachedPdfParse,  \* let cachedPdfParse: <<>> is null, <<handle>> the function
    cacheWrites,     \* number of assignments to cachedPdfParse so far
    importsStarted,  \* number of import("pdf-parse") evaluated so far
    calls            \* per call: where it is, its arguments and locals, its outcome

mvars == <<pages, fileName, mIdx, mPc, mResult, mVia>>
dvars == <<dLines, dIdx, dPc, duties, current, currentDayNumber,
           dSecondReports, dDayChanges>>
svars == <<sRaw, sText, sLines, sIdx, sPc, sequences, sCurrent>>
cvars == <<fn, arg, locals, ret>>
pvars == <<rawItems, rawText, pPages, pIdx, pPc, pSequences, uploadSequences>>
bvars == <<cachedPdfParse, cacheWrites, importsStarted, calls>>
nvars == <<cvars, pvars, bvars>>
vars == <<mvars, dvars, svars, nvars>>

----------------------------------------------------------------------------
(* Bounds of the model *)

MaxPages == 2
MaxDutyLines == 3
MaxTextLines == 4
MaxPacketItems == 4
MaxBlockLines == 3
MaxHeaderTokens == 4
MaxLegExtraTokens == 5
MaxMilliHours == 2000
MaxWholeHours == 100
MaxClockDigits == 5
MaxCalls == 2

----------------------------------------------------------------------------
(* Characters and strings *)

\* s.charAt(i - 1): the empty string outside the string
Ch(s, i) == IF i >= 1 /\ i <= Len(s) THEN SubSeq(s, i, i) ELSE ""

EnDash == "~"

Undefined == "<undefined>"

Null == "<null>"

IsDigit(c) == c \in {"0", "1", "2", "3", "4", "5", "6", "7", "8", "9"}

UpperLetters == "ABCDEFGHIJKLMNOPQRSTUVWXYZ"

LowerLetters == "abcdefghijklmnopqrstuvwxyz"

IsUpper(c) == \E k \in 1..26 : Ch(UpperLetters, k) = c

IsLower(c) == \E k \in 1..26 : Ch(LowerLetters, k) = c

\* \w of a JavaScript regular expression
IsWordChar(c) == IsDigit(c) \/ IsUpper(c) \/ IsLower(c) \/ c = "_"

\* \s of a JavaScript regular expression, for the characters the inputs hold
IsSpace(c) == c \in {" ", "\t", "\n", "\r", "\f"}

\* String.prototype.toUpperCase, one character
ToUpperCh(c) ==
    IF IsLower(c)
    THEN Ch(UpperLetters, CHOOSE k \in 1..26 : Ch(LowerLetters, k) = c)
    ELSE c

RECURSIVE ToUpperCase(_)
ToUpperCase(s) ==
    IF s = "" THEN "" ELSE ToUpperCh(Head(s)) \o ToUpperCase(Tail(s))

\* The literal lit (upper case) is at position i of s, compared as the i flag does
MatchLitCI(s, i, lit) ==
    /\ i >= 1
    /\ i + Len(lit) - 1 <= Len(s)
    /\ \A k \in 1..Len(lit) : ToUpperCh(Ch(s, i + k - 1)) = Ch(lit, k)

\* The literal lit is at position i of s, case-sensitively
MatchLit(s, i, lit) ==
    /\ i >= 1
    /\ i + Len(lit) - 1 <= Len(s)
    /\ SubSeq(s, i, i + Len(lit) - 1) = lit

\* Greedy X* from position i: the first position at or after i whose character
\* is not in class P (Len(s)+1 when the run reaches the end)
SpanEnd(s, i, P(_)) ==
    CHOOSE j \in i..(Len(s) + 1) :
        /\ \A k \in i..(j - 1) : P(Ch(s, k))
        /\ (j = Len(s) + 1 \/ ~P(Ch(s, j)))

\* [0-9]{n} at position i
DigitsAt(s, i, n) ==
    /\ i >= 1
    /\ i + n - 1 <= Len(s)
    /\ \A k \in i..(i + n - 1) : IsDigit(Ch(s, k))

\* \b between positions i-1 and i of s
WordBoundary(s, i) ==
    LET before == i > 1 /\ i - 1 <= Len(s) /\ IsWordChar(Ch(s, i - 1))
        after == i >= 1 /\ i <= Len(s) /\ IsWordChar(Ch(s, i))
    IN before # after

DigitVal(c) == CHOOSE v \in 0..9 : Ch("0123456789", v + 1) = c

\* Value of a string of decimal digits
RECURSIVE DigitsToNat(_)
DigitsToNat(s) ==
    IF s = "" THEN 0
    ELSE DigitsToNat(SubSeq(s, 1, Len(s) - 1)) * 10 + DigitVal(Ch(s, Len(s)))

AllDigits(s) == \A k \in 1..Len(s) : IsDigit(Ch(s, k))

\* Number(s) for a string without white space, sign, point or exponent:
\* "" is 0, decimal digits are their value, anything else is NaN
JsNumber(s) ==
    IF AllDigits(s) THEN [nan |-> FALSE, val |-> DigitsToNat(s)]
    ELSE [nan |-> TRUE, val |-> 0]

\* UTF-16 code unit of the characters a calendar token can hold
CharCode(c) ==
    CASE c = "-" -> 45
      [] c = "/" -> 47
      [] IsDigit(c) -> 48 + DigitVal(c)
      [] c = EnDash -> 8211

\* String.prototype.trim
IsNotSpace(c) == ~IsSpace(c)

TrimStart(s) == SubSeq(s, SpanEnd(s, 1, IsSpace), Len(s))

RECURSIVE TrimEnd(_)
TrimEnd(s) ==
    IF s # "" /\ IsSpace(Ch(s, Len(s))) THEN TrimEnd(SubSeq(s, 1, Len(s) - 1))
    ELSE s

Trim(s) == TrimEnd(TrimStart(s))

\* All sequences over S of length at most n
SeqsUpTo(S, n) == UNION {[1..k -> S] : k \in 0..n}

\* The least element of a non-empty set of integers
Least(S) == CHOOSE k \in S : \A j \in S : k <= j

----------------------------------------------------------------------------
(* extractMonthYear *)

MONTHS == <<"JAN", "FEB", "MAR", "APR", "MAY", "JUN",
            "JUL", "AUG", "SEP", "OCT", "NOV", "DEC">>

LONG_MONTHS == <<"JANUARY", "FEBRUARY", "MARCH", "APRIL", "MAY", "JUNE", "JULY",
                 "AUGUST", "SEPTEMBER", "OCTOBER", "NOVEMBER", "DECEMBER">>

\* [0-9\/\-–] : the class of the FDP CALENDAR capture
IsCalendarTokenChar(c) == IsDigit(c) \/ c \in {"/", "-", EnDash}

\* [\/-–] : the class the capture is split on, a RANGE from "/" (U+002F) to the
\* en dash (U+2013); "-" (U+002D) lies below it
IsCalendarSplitChar(c) == CharCode(c) >= CharCode("/") /\ CharCode(c) <= CharCode(EnDash)

IsNotCalendarSplitChar(c) == ~IsCalendarSplitChar(c)

\* The leftmost success of a scan, or the first alternative to succeed: the
\* first entry of rs that is not <<>>, and <<>> when there is none (null)
FirstResult(rs) ==
    IF \A k \in DOMAIN rs : rs[k] = <<>> THEN <<>>
    ELSE rs[CHOOSE k \in DOMAIN rs :
                /\ rs[k] # <<>>
                /\ \A j \in 1..(k - 1) : rs[j] = <<>>]

\* /FDP\s+CALENDAR\s+([0-9\/\-–]+)/i matched at position i: <<capture>> or <<>>
CalendarAt(s, i) ==
    LET a == i + 3
        b == SpanEnd(s, a, IsSpace)
        c == b + 8
        d == SpanEnd(s, c, IsSpace)
        e == SpanEnd(s, d, IsCalendarTokenChar)
    IN IF /\ MatchLitCI(s, i, "FDP")
          /\ b > a
          /\ MatchLitCI(s, b, "CALENDAR")
          /\ d > c
          /\ e > d
       THEN <<SubSeq(s, d, e - 1)>>
       ELSE <<>>

\* RegExp.prototype.exec: <<>> for null, <<capture>> for the leftmost match
CalendarMatch(page) == FirstResult([i \in 1..Len(page) |-> CalendarAt(page, i)])

\* calendarMatch[1].split(/[\/-–]/)[0]
CalendarMonthPart(token) ==
    SubSeq(token, 1, SpanEnd(token, 1, IsNotCalendarSplitChar) - 1)

\* s.slice(0, 2)
Slice2(s) == SubSeq(s, 1, IF Len(s) < 2 THEN Len(s) ELSE 2)

\* /([0-9]{4})/.exec(page)
YearMatch(page) ==
    FirstResult([i \in 1..Len(page) |->
                    IF DigitsAt(page, i, 4) THEN <<SubSeq(page, i, i + 3)>> ELSE <<>>])

\* (name)\s+([0-9]{4}) at position i, compared as the i flag does
NameYearWith(s, i, name) ==
    LET a == i + Len(name)
        b == SpanEnd(s, a, IsSpace)
    IN IF MatchLitCI(s, i, name) /\ b > a /\ DigitsAt(s, b, 4)
       THEN <<[name |-> SubSeq(s, i, a - 1), year |-> SubSeq(s, b, b + 3)]>>
       ELSE <<>>

\* (NAME1|NAME2|...)\s+([0-9]{4}) at position i: the alternatives in order
NameYearAt(s, i, names) ==
    FirstResult([n \in 1..Len(names) |-> NameYearWith(s, i, names[n])])

\* the leftmost match of (NAME1|NAME2|...)\s+([0-9]{4}) with the i flag
NameYearMatch(page, names) ==
    FirstResult([i \in 1..Len(page) |-> NameYearAt(page, i, names)])

AbbrevYearWith_Never(s, i, pre, name) == <<>>

\* ([0-9]{pre})(name)([0-9]{4}) at position i, compared as the i flag does
AbbrevYearWith(s, i, pre, name) ==
    IF /\ DigitsAt(s, i, pre)
       /\ MatchLitCI(s, i + pre, name)
       /\ DigitsAt(s, i + pre + 3, 4)
    THEN <<[name |-> SubSeq(s, i + pre, i + pre + 2),
            year |-> SubSeq(s, i + pre + 3, i + pre + 6)]>>
    ELSE <<>>

\* the leftmost match of ([0-9]{pre})(JAN|...|DEC)([0-9]{4}) with the i flag
\* (pre = 2: the compact pattern of the pages; pre = 0: that of the file name)
AbbrevYearMatch(s, pre) ==
    FirstResult([i \in 1..Len(s) |->
                    FirstResult([n \in 1..12 |-> AbbrevYearWith(s, i, pre, MONTHS[n])])])

\* extractMonthFromToken
extractMonthFromToken(token) ==
    IF \E n \in 1..12 : MONTHS[n] = ToUpperCase(token)
    THEN ToUpperCase(token) ELSE Undefined

\* The body of `if (calendarMatch) { ... }`: <<>> when it does not return
CalendarReturn(calendarMatch, yearMatch) ==
    IF calendarMatch = <<>> THEN <<>>
    ELSE LET monthPart == CalendarMonthPart(calendarMatch[1])
             monthNumber == Slice2(monthPart)
             monthIndex == JsNumber(monthNumber).val - 1
         IN IF /\ ~JsNumber(monthNumber).nan
               /\ monthIndex >= 0
               /\ monthIndex < Len(MONTHS)
               /\ yearMatch # <<>>
            THEN <<[month |-> MONTHS[monthIndex + 1],
                    year |-> DigitsToNat(yearMatch[1]), via |-> 1]>>
            ELSE <<>>

\* Pattern 1 on one page
CalendarResult(page) == CalendarReturn(CalendarMatch(page), YearMatch(page))

\* The body of `if (longMonthMatch) { ... }`
LongMonthReturn(longMonthMatch) ==
    IF longMonthMatch = <<>> THEN <<>>
    ELSE <<[month |-> ToUpperCase(SubSeq(longMonthMatch[1].name, 1, 3)),
            year |-> DigitsToNat(longMonthMatch[1].year), via |-> 2]>>

\* The body of `if (compactMatch) { ... }`
CompactReturn(compactMatch) ==
    IF compactMatch = <<>> THEN <<>>
    ELSE IF extractMonthFromToken(compactMatch[1].name) = Undefined THEN <<>>
    ELSE <<[month |-> extractMonthFromToken(compactMatch[1].name),
            year |-> DigitsToNat(compactMatch[1].year), via |-> 3]>>

\* The body of `if (shortMonthMatch) { ... }`
ShortMonthReturn(shortMonthMatch) ==
    IF shortMonthMatch = <<>> THEN <<>>
    ELSE <<[month |-> ToUpperCase(shortMonthMatch[1].name),
            year |-> DigitsToNat(shortMonthMatch[1].year), via |-> 4]>>

\* The four patterns tried on one page, in the order of the loop body
PagePatternResults(page) ==
    <<CalendarResult(page),
      LongMonthReturn(NameYearMatch(page, LONG_MONTHS)),
      CompactReturn(AbbrevYearMatch(page, 2)),
      ShortMonthReturn(NameYearMatch(page, MONTHS))>>

\* One iteration of the loop over pages: <<>> when no return statement is
\* reached, else the value returned with the number of the pattern
PageResult(page) == FirstResult(PagePatternResults(page))

\* The pages and file names the model draws its documents from
PageVocab ==
    {"FDP CALENDAR 12/01-12/31 BOS 2025",
     "fdp calendar 3/1~3/31 1234 2024",
     "FDP CALENDAR -- 2025",
     "BID PERIOD DECEMBER 2025",
     "EFF 01NOV2024 BOS",
     "OCT 2023 SEQ 12",
     "SEQ 1234 2 CA2\nTTL 12.30"}

FileVocab == {"BOS_737_DEC2025.pdf", "bos_320_jan2026.pdf", "packet.pdf"}

\* new Date().getFullYear(): the wall-clock year is any value of this set
ClockYears == {2025, 2026}

NoResult == [month |-> Undefined, year |-> 0]

MonthIdle ==
    /\ pages = <<>>
    /\ fileName = ""
    /\ mIdx = 1
    /\ mPc = "idle"
    /\ mResult = NoResult
    /\ mVia = 0

MonthInit ==
    /\ pages \in SeqsUpTo(PageVocab, MaxPages)
    /\ fileName \in FileVocab
    /\ mIdx = 1
    /\ mPc = "scan"
    /\ mResult = NoResult
    /\ mVia = 0

\* for (const page of pages) { ... }: one iteration
MonthScanPage ==
    /\ mPc = "scan"
    /\ mIdx <= Len(pages)
    /\ \E r \in {PageResult(pages[mIdx])} :
          IF r # <<>>
          THEN /\ mResult' = [month |-> r[1].month, year |-> r[1].year]
               /\ mVia' = r[1].via
               /\ mPc' = "done"
               /\ mIdx' = mIdx
          ELSE /\ mIdx' = mIdx + 1
               /\ UNCHANGED <<mResult, mVia, mPc>>
    /\ UNCHANGED <<pages, fileName, dvars, svars, nvars>>

\* after the loop: the file name matches (JAN|...|DEC)([0-9]{4})
MonthFromFileName ==
    /\ mPc = "scan"
    /\ mIdx > Len(pages)
    /\ \E fileMatch \in {AbbrevYearMatch(fileName, 0)} :
          /\ fileMatch # <<>>
          /\ mResult' = [month |-> ToUpperCase(fileMatch[1].name),
                         year |-> DigitsToNat(fileMatch[1].year)]
    /\ mVia' = 5
    /\ mPc' = "done"
    /\ UNCHANGED <<pages, fileName, mIdx, dvars, svars, nvars>>

\* the final return: month "UNKNOWN" and the wall-clock year
MonthUnknown ==
    /\ mPc = "scan"
    /\ mIdx > Len(pages)
    /\ AbbrevYearMatch(fileName, 0) = <<>>
    /\ \E y \in ClockYears : mResult' = [month |-> "UNKNOWN", year |-> y]
    /\ mVia' = 6
    /\ mPc' = "done"
    /\ UNCHANGED <<pages, fileName, mIdx, dvars, svars, nvars>>

MonthNext == MonthScanPage \/ MonthFromFileName \/ MonthUnknown

----------------------------------------------------------------------------
(* Claims about extractMonthYear *)

\* The month the calendar header names, read as the specification reads it:
\* the first segment of the token delimited by "/", "-" or the en dash, its
\* first two characters a month number 1..12
ClaimedCalendarResult(page) ==
    LET calendarMatch == CalendarMatch(page)
    IN IF calendarMatch = <<>> THEN <<>>
       ELSE LET token == calendarMatch[1]
                cut == CHOOSE j \in 1..(Len(token) + 1) :
                          /\ \A k \in 1..(j - 1) : Ch(token, k) \notin {"/", "-", EnDash}
                          /\ (j = Len(token) + 1 \/ Ch(token, j) \in {"/", "-", EnDash})
                segment == SubSeq(token, 1, cut - 1)
                two == SubSeq(segment, 1, IF Len(segment) < 2 THEN Len(segment) ELSE 2)
                yearMatch == YearMatch(page)
            IN IF /\ two # ""
                  /\ AllDigits(two)
                  /\ DigitsToNat(two) \in 1..12
                  /\ yearMatch # <<>>
               THEN <<[month |-> MONTHS[DigitsToNat(two)],
                       year |-> DigitsToNat(yearMatch[1])]>>
               ELSE <<>>

\* C1: when the first page holds FDP CALENDAR <token> whose first segment
\* starts with a month number 1..12, extractMonthYear returns that month with
\* the first 4-digit number of that page (FDP CALENDAR 12/01-12/31 ... 2025
\* gives DEC 2025).
C1_CalendarHeaderDecides ==
    (mPc = "done" /\ Len(pages) >= 1 /\ ClaimedCalendarResult(pages[1]) # <<>>)
        => mResult = ClaimedCalendarResult(pages[1])[1]

\* The patterns of the loop body that match a page, by number
PagePatterns(page) == {k \in 1..4 : PagePatternResults(page)[k] # <<>>}

DocumentPatterns == UNION {PagePatterns(pages[i]) : i \in 1..Len(pages)}

\* C2: the result comes from the lowest-numbered pattern that matches on any
\* page of the document, and the file name (5) or the sentinel (6) is used
\* only when no page matches any pattern.
C2_PrecedenceOverDocument ==
    mPc = "done" =>
        IF DocumentPatterns = {} THEN mVia \in {5, 6}
        ELSE /\ mVia \in DocumentPatterns
             /\ \A k \in DocumentPatterns : mVia <= k

\* The positions of the file name where a month abbreviation stands, in
\* either case, with four digits right after it
FileNameCues ==
    {i \in 1..Len(fileName) :
        /\ \E n \in 1..12 : MatchLitCI(fileName, i, MONTHS[n])
        /\ \A k \in 3..6 : IsDigit(Ch(fileName, i + k))}

\* C16: when no page yields a month, the month and year are those of the
\* first month abbreviation of the file name that four digits follow
\* (`BOS_737_DEC2025.pdf` gives DEC 2025); without one the month is
\* "UNKNOWN" and the year is the wall-clock year.
C16_FileNameThenUnknown ==
    (/\ mPc = "done"
     /\ DocumentPatterns = {}
     /\ \A i \in 1..Len(pages) : ClaimedCalendarResult(pages[i]) = <<>>) =>
        /\ FileNameCues # {} =>
              /\ mResult.month
                    = ToUpperCase(SubSeq(fileName, Least(FileNameCues), Least(FileNameCues) + 2))
              /\ mResult.year
                    = DigitsToNat(SubSeq(fileName, Least(FileNameCues) + 3,
                                         Least(FileNameCues) + 6))
        /\ FileNameCues = {} => (mResult.month = "UNKNOWN" /\ mResult.year \in ClockYears)
        /\ fileName = "BOS_737_DEC2025.pdf" => mResult = [month |-> "DEC", year |-> 2025]

C16_Witness ==
    /\ mPc = "done"
    /\ pages = <<"SEQ 1234 2 CA2\nTTL 12.30", "FDP CALENDAR -- 2025">>
    /\ fileName = "BOS_737_DEC2025.pdf"
    /\ mResult = [month |-> "DEC", year |-> 2025]

----------------------------------------------------------------------------
(* parseDutyDays and the line parsers it calls *)

\* /^RPT\b/
IsReportLine(line) == MatchLit(line, 1, "RPT") /\ WordBoundary(line, 4)

\* /^RLS\b/
IsReleaseLine(line) == MatchLit(line, 1, "RLS") /\ WordBoundary(line, 4)

\* isLegLine: /^\d+\s+\d+\/\d+\s+\d+\s+\d+/
isLegLine(line) ==
    LET a == SpanEnd(line, 1, IsDigit)
        b == SpanEnd(line, a, IsSpace)
        c == SpanEnd(line, b, IsDigit)
        d == SpanEnd(line, c + 1, IsDigit)
        e == SpanEnd(line, d, IsSpace)
        f == SpanEnd(line, e, IsDigit)
        g == SpanEnd(line, f, IsSpace)
    IN /\ a > 1
       /\ b > a
       /\ c > b
       /\ c <= Len(line) /\ Ch(line, c) = "/"
       /\ d > c + 1
       /\ e > d
       /\ f > e
       /\ g > f
       /\ g <= Len(line) /\ IsDigit(Ch(line, g))

\* isHotelLine: /HOTEL/i
isHotelLine(line) == \E i \in 1..Len(line) : MatchLitCI(line, i, "HOTEL")

\* /^(\d+)/.exec(line)[1] of a leg line
LegDayOf(line) == SubSeq(line, 1, SpanEnd(line, 1, IsDigit) - 1)

\* [0-9]{n1}\/[0-9]{3,4} at position i, the second run greedy
SlashClockAt(s, i, n1) ==
    IF DigitsAt(s, i, n1) /\ Ch(s, i + n1) = "/" /\ DigitsAt(s, i + n1 + 1, 3)
    THEN <<SubSeq(s, i, i + n1 + (IF DigitsAt(s, i + n1 + 1, 4) THEN 4 ELSE 3))>>
    ELSE <<>>

\* [0-9]{n} at position i
PlainClockAt(s, i, n) ==
    IF DigitsAt(s, i, n) THEN <<SubSeq(s, i, i + n - 1)>> ELSE <<>>

\* ([0-9]{3,4}\/[0-9]{3,4}|[0-9]{3,4}) at position i: <<>> or <<capture>>,
\* the alternatives and the greedy {3,4} tried in the order of the matcher
ClockTokenAt(s, i) ==
    FirstResult(<<SlashClockAt(s, i, 4), SlashClockAt(s, i, 3),
                  PlainClockAt(s, i, 4), PlainClockAt(s, i, 3)>>)

\* /KEY\s+([0-9]{3,4}\/[0-9]{3,4}|[0-9]{3,4})/ at position i, KEY being RPT or RLS
KeyClockAt(s, i, key) ==
    IF MatchLit(s, i, key) /\ SpanEnd(s, i + Len(key), IsSpace) > i + Len(key)
    THEN ClockTokenAt(s, SpanEnd(s, i + Len(key), IsSpace))
    ELSE <<>>

\* the leftmost match of the pattern above: <<>> or <<match[1]>>
KeyClockMatch(line, key) ==
    FirstResult([i \in 1..Len(line) |-> KeyClockAt(line, i, key)])

\* match ? match[1] : undefined
MatchOrUndefined(match) == IF match # <<>> THEN match[1] ELSE Undefined

parseReport(line) ==
    [reportLine |-> line, reportTime |-> MatchOrUndefined(KeyClockMatch(line, "RPT"))]

parseRelease(line) ==
    [releaseLine |-> line, releaseTime |-> MatchOrUndefined(KeyClockMatch(line, "RLS"))]

\* line.split(/\s+/).filter(Boolean)
RECURSIVE Tokens(_)
Tokens(line) ==
    LET a == SpanEnd(line, 1, IsSpace)
        b == SpanEnd(line, a, IsNotSpace)
    IN IF a > Len(line) THEN <<>>
       ELSE <<SubSeq(line, a, b - 1)>> \o Tokens(SubSeq(line, b, Len(line)))

\* tokens.slice(idx).join(" ")
RECURSIVE JoinFrom(_, _, _)
JoinFrom(tokens, idx, sep) ==
    IF idx > Len(tokens) THEN ""
    ELSE IF idx = Len(tokens) THEN tokens[idx]
    ELSE tokens[idx] \o sep \o JoinFrom(tokens, idx + 1, sep)

\* tokens[idx] of a 0-based idx, Undefined past the end
TokenAt(tokens, idx) == IF idx < Len(tokens) THEN tokens[idx + 1] ELSE Undefined

\* the value of idx after `if (tokens[idx]) field = tokens[idx++]`
Advance(tokens, idx) == IF idx < Len(tokens) THEN idx + 1 ELSE idx

\* /^[A-Z]$/.test(tokens[idx])
IsMealToken(tokens, idx) ==
    idx < Len(tokens) /\ Len(tokens[idx + 1]) = 1 /\ IsUpper(tokens[idx + 1])

IsBlockTimeToken_Never(tokens, idx) == FALSE

\* /^\d+(?:\.\d+)?/.test(tokens[idx])
IsBlockTimeToken(tokens, idx) ==
    idx < Len(tokens) /\ IsDigit(Ch(tokens[idx + 1], 1))

\* The body of parseFlightLeg on the tokens of the line
LegOfTokens(line, tokens) ==
    LET i1 == Advance(tokens, 0)
        i2 == Advance(tokens, i1)
        i3 == Advance(tokens, i2)
        i4 == Advance(tokens, i3)
        i5 == Advance(tokens, i4)
        i6 == Advance(tokens, i5)
        i7 == IF IsMealToken(tokens, i6) THEN i6 + 1 ELSE i6
        i8 == Advance(tokens, i7)
        i9 == Advance(tokens, i8)
        i10 == IF IsBlockTimeToken(tokens, i9) THEN i9 + 1 ELSE i9
    IN [raw |-> line,
        day |-> TokenAt(tokens, 0),
        date |-> TokenAt(tokens, i1),
        equipment |-> TokenAt(tokens, i2),
        flightNumber |-> TokenAt(tokens, i3),
        departureStation |-> TokenAt(tokens, i4),
        departureTime |-> TokenAt(tokens, i5),
        meal |-> IF IsMealToken(tokens, i6) THEN tokens[i6 + 1] ELSE Undefined,
        arrivalStation |-> TokenAt(tokens, i7),
        arrivalTime |-> TokenAt(tokens, i8),
        blockTime |-> IF IsBlockTimeToken(tokens, i9) THEN tokens[i9 + 1] ELSE Undefined,
        remarks |-> IF i10 < Len(tokens) THEN JoinFrom(tokens, i10 + 1, " ") ELSE Undefined]

parseFlightLeg(line) == LegOfTokens(line, Tokens(line))

\* The branch of the loop body a trimmed line takes, in the order of the tests
LineClass(trimmedLine) ==
    IF trimmedLine = "" THEN "blank"
    ELSE IF IsReportLine(trimmedLine) THEN "report"
    ELSE IF isLegLine(trimmedLine) THEN "leg"
    ELSE IF IsReleaseLine(trimmedLine) THEN "release"
    ELSE IF isHotelLine(trimmedLine) THEN "hotel"
    ELSE "other"

\* { rawLines: [], legs: [] }
EmptyDay ==
    [rawLines |-> <<>>, legs |-> <<>>, reportLine |-> Undefined,
     reportTime |-> Undefined, calendarDay |-> Undefined, releaseLine |-> Undefined,
     releaseTime |-> Undefined, hotelLayover |-> Undefined, summary |-> Undefined]

\* The closure state of parseDutyDays as one value
DutyState == [duties |-> duties, current |-> current, currentDayNumber |-> currentDayNumber]

startNewDutyDay(st) ==
    [st EXCEPT !.current = <<EmptyDay>>, !.currentDayNumber = Null]

finalizeCurrentDay(st) ==
    IF st.current # <<>>
    THEN [duties |-> Append(st.duties, st.current[1]),
          current |-> <<>>,
          currentDayNumber |-> Null]
    ELSE st

\* Mutants of the flush tests and of the branches that must not flush
ReportFlushes_Never(st) == FALSE

ReportFlushes_AnyOpenDay(st) == st.current # <<>>

LegFlushes_Never(st, legDay) == FALSE

\* else if (current && current.reportLine)
ReportFlushes(st) == st.current # <<>> /\ st.current[1].reportLine # Undefined

\* else if (currentDayNumber && legDay !== currentDayNumber)
LegFlushes(st, legDay) ==
    st.current # <<>> /\ st.currentDayNumber # Null /\ legDay # st.currentDayNumber

\* if (/^RPT\b/.test(trimmedLine)) { ... continue; }
ReportBranch(st, trimmedLine) ==
    LET opened == IF st.current = <<>> THEN startNewDutyDay(st)
                  ELSE IF ReportFlushes(st) THEN startNewDutyDay(finalizeCurrentDay(st))
                  ELSE st
        report == parseReport(trimmedLine)
    IN [opened EXCEPT !.current[1].reportLine = report.reportLine,
                      !.current[1].reportTime = report.reportTime,
                      !.current[1].rawLines = Append(@, trimmedLine)]

LegBranch_NoRawLine(st, trimmedLine) ==
    LET legDay == LegDayOf(trimmedLine)
        opened == IF st.current = <<>> THEN startNewDutyDay(st)
                  ELSE IF LegFlushes(st, legDay) THEN startNewDutyDay(finalizeCurrentDay(st))
                  ELSE st
        leg == parseFlightLeg(trimmedLine)
    IN [opened EXCEPT
          !.currentDayNumber = IF @ # Null THEN @ ELSE legDay,
          !.current[1].legs = Append(@, leg),
          !.current[1].calendarDay = IF @ = Undefined /\ leg.date # Undefined
                                     THEN leg.date ELSE @]

\* if (legMatch) { ... continue; }
LegBranch(st, trimmedLine) ==
    LET legDay == LegDayOf(trimmedLine)
        opened == IF st.current = <<>> THEN startNewDutyDay(st)
                  ELSE IF LegFlushes(st, legDay) THEN startNewDutyDay(finalizeCurrentDay(st))
                  ELSE st
        leg == parseFlightLeg(trimmedLine)
    IN [opened EXCEPT
          !.currentDayNumber = IF @ # Null THEN @ ELSE legDay,
          !.current[1].legs = Append(@, leg),
          !.current[1].calendarDay = IF @ = Undefined /\ leg.date # Undefined
                                     THEN leg.date ELSE @,
          !.current[1].rawLines = Append(@, trimmedLine)]

ReleaseBranch_FlushesOnSecond(st, trimmedLine) ==
    LET opened == IF st.current = <<>> THEN startNewDutyDay(st)
                  ELSE IF st.current[1].releaseLine # Undefined
                       THEN startNewDutyDay(finalizeCurrentDay(st))
                  ELSE st
    IN [opened EXCEPT !.current[1].releaseLine = trimmedLine,
                      !.current[1].releaseTime = parseRelease(trimmedLine).releaseTime,
                      !.current[1].rawLines = Append(@, trimmedLine)]

\* if (/^RLS\b/.test(trimmedLine)) { ... continue; }
ReleaseBranch(st, trimmedLine) ==
    LET opened == IF st.current = <<>> THEN startNewDutyDay(st) ELSE st
        release == parseRelease(trimmedLine)
    IN [opened EXCEPT !.current[1].releaseLine = release.releaseLine,
                      !.current[1].releaseTime = release.releaseTime,
                      !.current[1].rawLines = Append(@, trimmedLine)]

HotelBranch_Flushes(st, trimmedLine) ==
    LET opened == startNewDutyDay(finalizeCurrentDay(st))
    IN [opened EXCEPT !.current[1].hotelLayover = trimmedLine,
                      !.current[1].rawLines = Append(@, trimmedLine)]

\* if (isHotelLine(trimmedLine)) { ... continue; }
HotelBranch(st, trimmedLine) ==
    LET opened == IF st.current = <<>> THEN startNewDutyDay(st) ELSE st
    IN [opened EXCEPT !.current[1].hotelLayover = trimmedLine,
                      !.current[1].rawLines = Append(@, trimmedLine)]

OtherBranch_OpensDay(st, trimmedLine) ==
    LET opened == IF st.current = <<>> THEN startNewDutyDay(st) ELSE st
    IN [opened EXCEPT !.current[1].summary =
                          IF @ # Undefined THEN @ \o " | " \o trimmedLine
                          ELSE trimmedLine]

\* if (current) { current.summary = ... }
OtherBranch(st, trimmedLine) ==
    IF st.current # <<>>
    THEN [st EXCEPT !.current[1].summary =
                        IF @ # Undefined THEN @ \o " | " \o trimmedLine
                        ELSE trimmedLine]
    ELSE st

\* The lines the model draws the argument of parseDutyDays from
DutyVocab ==
    {"RPT 0600",
     "RPT 1400 HOTEL",
     "1 12/25 737 1234 BOS 0700 E LGA 0815 1.15",
     "1 12/25 737 88 LGA 0900 BOS 1010",
     "2 12/26 737 55 BOS 0700 LGA 0815 1.15 X Y",
     " RLS 0900 ",
     "RLS 1700/1600",
     "HOTEL HILTON 12.30",
     "Marriott hotel",
     "CREW MEAL",
     "1 12/25 737",
     "  "}

DutyInit ==
    /\ dLines \in SeqsUpTo(DutyVocab, MaxDutyLines)
    /\ dIdx = 1
    /\ dPc = "loop"
    /\ duties = <<>>
    /\ current = <<>>
    /\ currentDayNumber = Null
    /\ dSecondReports = 0
    /\ dDayChanges = 0

\* const trimmedLine = line.trim() of the line the loop is at
TrimmedLine == Trim(dLines[dIdx])

AtLine(class) ==
    /\ dPc = "loop"
    /\ dIdx <= Len(dLines)
    /\ LineClass(TrimmedLine) = class

SetDutyState(st) ==
    /\ duties' = st.duties
    /\ current' = st.current
    /\ currentDayNumber' = st.currentDayNumber

\* if (!trimmedLine) continue;
DutyBlank ==
    /\ AtLine("blank")
    /\ dIdx' = dIdx + 1
    /\ UNCHANGED <<dLines, dPc, duties, current, currentDayNumber,
                   dSecondReports, dDayChanges, mvars, svars, nvars>>

DutyReport ==
    /\ AtLine("report")
    /\ SetDutyState(ReportBranch(DutyState, TrimmedLine))
    /\ dSecondReports' = IF current # <<>> /\ current[1].reportLine # Undefined
                         THEN dSecondReports + 1 ELSE dSecondReports
    /\ dIdx' = dIdx + 1
    /\ UNCHANGED <<dLines, dPc, dDayChanges, mvars, svars, nvars>>

DutyLeg ==
    /\ AtLine("leg")
    /\ SetDutyState(LegBranch(DutyState, TrimmedLine))
    /\ dDayChanges' = IF /\ current # <<>>
                         /\ currentDayNumber # Null
                         /\ currentDayNumber # LegDayOf(TrimmedLine)
                      THEN dDayChanges + 1 ELSE dDayChanges
    /\ dIdx' = dIdx + 1
    /\ UNCHANGED <<dLines, dPc, dSecondReports, mvars, svars, nvars>>

DutyRelease ==
    /\ AtLine("release")
    /\ SetDutyState(ReleaseBranch(DutyState, TrimmedLine))
    /\ dIdx' = dIdx + 1
    /\ UNCHANGED <<dLines, dPc, dSecondReports, dDayChanges, mvars, svars, nvars>>

DutyHotel ==
    /\ AtLine("hotel")
    /\ SetDutyState(HotelBranch(DutyState, TrimmedLine))
    /\ dIdx' = dIdx + 1
    /\ UNCHANGED <<dLines, dPc, dSecondReports, dDayChanges, mvars, svars, nvars>>

DutyOther ==
    /\ AtLine("other")
    /\ SetDutyState(OtherBranch(DutyState, TrimmedLine))
    /\ dIdx' = dIdx + 1
    /\ UNCHANGED <<dLines, dPc, dSecondReports, dDayChanges, mvars, svars, nvars>>

\* after the loop: if (current) finalizeCurrentDay(); return duties.map(...),
\* the map copying every field of every day
DutyFinish ==
    /\ dPc = "loop"
    /\ dIdx > Len(dLines)
    /\ SetDutyState(finalizeCurrentDay(DutyState))
    /\ dPc' = "done"
    /\ UNCHANGED <<dLines, dIdx, dSecondReports, dDayChanges, mvars, svars, nvars>>

DutyNext ==
    \/ DutyBlank
    \/ DutyReport
    \/ DutyLeg
    \/ DutyRelease
    \/ DutyHotel
    \/ DutyOther
    \/ DutyFinish

----------------------------------------------------------------------------
(* Claims about parseDutyDays *)

\* The lines the loop has consumed so far
Consumed == SubSeq(dLines, 1, dIdx - 1)

\* The emitted days followed by the open day
AllDays == duties \o current

Classified == {"report", "leg", "release", "hotel"}

\* The trimmed lines of ls whose class is in classes, in order
RECURSIVE LinesOfClass(_, _)
LinesOfClass(ls, classes) ==
    IF ls = <<>> THEN <<>>
    ELSE (IF LineClass(Trim(Head(ls))) \in classes THEN <<Trim(Head(ls))>> ELSE <<>>)
         \o LinesOfClass(Tail(ls), classes)

RECURSIVE DropUndefined(_)
DropUndefined(xs) ==
    IF xs = <<>> THEN <<>>
    ELSE (IF Head(xs) = Undefined THEN <<>> ELSE <<Head(xs)>>) \o DropUndefined(Tail(xs))

RECURSIVE Flatten(_)
Flatten(xss) == IF xss = <<>> THEN <<>> ELSE Head(xss) \o Flatten(Tail(xss))

\* The report lines a day holds among its raw lines
ReportsHeld(day) == LinesOfClass(day.rawLines, {"report"})

C3_SecondReportStep ==
    (AtLine("report") /\ current # <<>> /\ current[1].reportLine # Undefined)
        => /\ duties' = Append(duties, current[1])
           /\ current' # <<>>
           /\ current'[1].reportLine = TrimmedLine
           /\ current'[1].rawLines = <<TrimmedLine>>
           /\ current'[1].legs = <<>>

C3_OwnReport ==
    /\ \A k \in 1..Len(AllDays) :
          ReportsHeld(AllDays[k]) = DropUndefined(<<AllDays[k].reportLine>>)
    /\ DropUndefined([k \in 1..Len(AllDays) |-> AllDays[k].reportLine])
          = LinesOfClass(Consumed, {"report"})

\* C3: a report line consumed while the open day already has a report emits
\* the open day and opens a new day whose report is this line; every day holds
\* exactly its own report, and the reports of the days are the report lines of
\* the input in input order.
C3_SecondReportStartsNewDay == [][C3_SecondReportStep]_vars /\ []C3_OwnReport

C3_Witness ==
    /\ dPc = "done"
    /\ dLines = <<"RPT 0600", "RPT 1400 HOTEL">>
    /\ Len(duties) = 2
    /\ duties[1].reportTime = "0600"
    /\ duties[2].reportTime = "1400"

C4_DayChangeStep ==
    (/\ AtLine("leg")
     /\ current # <<>>
     /\ current[1].legs # <<>>
     /\ current[1].legs[1].day # LegDayOf(TrimmedLine))
        => /\ duties' = Append(duties, current[1])
           /\ current' # <<>>
           /\ current'[1].legs = <<parseFlightLeg(TrimmedLine)>>

C4_SameDayNumber ==
    /\ \A k \in 1..Len(AllDays) :
          \A i, j \in 1..Len(AllDays[k].legs) :
              AllDays[k].legs[i].day = AllDays[k].legs[j].day
    /\ LET legs == Flatten([k \in 1..Len(AllDays) |-> AllDays[k].legs])
       IN [i \in 1..Len(legs) |-> legs[i].raw] = LinesOfClass(Consumed, {"leg"})

\* C4: all legs of one duty day carry the same day-number token; a leg whose
\* day-number differs from that of the open day's legs closes the day and is
\* the first leg of a new one; days and legs keep input order.
C4_LegsShareDayNumber == [][C4_DayChangeStep]_vars /\ []C4_SameDayNumber

C4_Witness ==
    /\ dPc = "done"
    /\ Len(duties) = 2
    /\ Len(duties[1].legs) = 2
    /\ duties[1].legs[1].day = "1"
    /\ duties[1].legs[2].day = "1"
    /\ duties[2].legs[1].day = "2"

\* The day a release or hotel line attaches to: the open day, or a fresh one
AttachBase == IF current = <<>> THEN EmptyDay ELSE current[1]

C5_ReleaseStep ==
    AtLine("release")
        => /\ duties' = duties
           /\ current' = <<[AttachBase EXCEPT
                              !.releaseLine = TrimmedLine,
                              !.releaseTime = parseRelease(TrimmedLine).releaseTime,
                              !.rawLines = Append(@, TrimmedLine)]>>

C5_HotelStep ==
    AtLine("hotel")
        => /\ duties' = duties
           /\ current' = <<[AttachBase EXCEPT
                              !.hotelLayover = TrimmedLine,
                              !.rawLines = Append(@, TrimmedLine)]>>

\* C5: a release or hotel line never closes a day: the emitted days are
\* unchanged, and the line attaches to the open day (a fresh one when none is
\* open), overwriting the release or hotel value recorded there.
C5_ReleaseHotelNeverFlush == [][C5_ReleaseStep /\ C5_HotelStep]_vars

C5_Witness ==
    /\ dPc = "done"
    /\ Len(duties) = 1
    /\ duties[1].rawLines = <<"RLS 0900", "HOTEL HILTON 12.30", "RLS 1700/1600">>
    /\ duties[1].releaseTime = "1700/1600"
    /\ duties[1].hotelLayover = "HOTEL HILTON 12.30"

C6_FirstReportStep ==
    (AtLine("report") /\ current # <<>> /\ current[1].reportLine = Undefined)
        => /\ duties' = duties
           /\ currentDayNumber' = currentDayNumber
           /\ current' = <<[current[1] EXCEPT
                              !.reportLine = TrimmedLine,
                              !.reportTime = parseReport(TrimmedLine).reportTime,
                              !.rawLines = Append(@, TrimmedLine)]>>

\* C6: a report line consumed while the open day has no report yet is attached
\* to that day in place: nothing is emitted, and the day's legs, release, hotel
\* and established day-number stay as they were.
C6_ReportAttachesInPlace == [][C6_FirstReportStep]_vars

C6_Witness ==
    /\ dPc = "done"
    /\ Len(duties) = 1
    /\ duties[1].rawLines = <<"1 12/25 737 88 LGA 0900 BOS 1010", "RLS 0900", "RPT 0600">>
    /\ duties[1].reportTime = "0600"
    /\ Len(duties[1].legs) = 1
    /\ duties[1].releaseTime = "0900"

C7_OtherStep ==
    AtLine("other")
        => /\ duties' = duties
           /\ currentDayNumber' = currentDayNumber
           /\ current' = IF current = <<>> THEN <<>>
                         ELSE <<[current[1] EXCEPT !.summary =
                                    IF @ = Undefined THEN TrimmedLine
                                    ELSE @ \o " | " \o TrimmedLine]>>

\* The lines consumed after the first report, leg, release or hotel line
AfterFirstClassified ==
    IF LinesOfClass(Consumed, Classified) = <<>> THEN <<>>
    ELSE LET f == CHOOSE k \in 1..Len(Consumed) :
                      /\ LineClass(Trim(Consumed[k])) \in Classified
                      /\ \A j \in 1..(k - 1) : LineClass(Trim(Consumed[j])) \notin Classified
         IN SubSeq(Consumed, f + 1, Len(Consumed))

C7_NothingLostOnceOpen ==
    /\ (dPc = "loop" /\ LinesOfClass(Consumed, Classified) # <<>>) => current # <<>>
    /\ JoinFrom(DropUndefined([k \in 1..Len(AllDays) |-> AllDays[k].summary]), 1, " | ")
          = JoinFrom(LinesOfClass(AfterFirstClassified, {"other"}), 1, " | ")

\* C7: an other-line is appended to the open day's summary joined with " | "
\* and neither opens nor closes a day; it is dropped only when no day is open,
\* which is the case only before the first report, leg, release or hotel line.
C7_OtherLinesAttach == [][C7_OtherStep]_vars /\ []C7_NothingLostOnceOpen

C7_Witness ==
    /\ dPc = "done"
    /\ dLines = <<"RPT 0600", "CREW MEAL", "1 12/25 737">>
    /\ Len(duties) = 1
    /\ duties[1].summary = "CREW MEAL | 1 12/25 737"

\* C8: the number of duty days (the open one included) is 0 while no report,
\* leg, release or hotel line has been consumed, and otherwise 1 + the number
\* of second reports + the number of legs with a disagreeing day-number; the
\* returned list is that count, no day being open at the end.
C8_OnlyTwoFlushPoints ==
    /\ Len(duties) + Len(current) =
          IF LinesOfClass(Consumed, Classified) = <<>> THEN 0
          ELSE 1 + dSecondReports + dDayChanges
    /\ dPc = "done" => current = <<>>

C8_Witness ==
    /\ dPc = "done"
    /\ Len(duties) = 3
    /\ dSecondReports + dDayChanges = 2

\* The legs of all the days, in order
LegsOfDays(days) == Flatten([k \in 1..Len(days) |-> days[k].legs])

\* C27: no report, leg, release or hotel line is lost or duplicated: every
\* duty day has at least one raw line and at most one report line, the raw
\* lines of all the days are the (trimmed) report, leg, release and hotel
\* lines of the input in input order, and the legs of all the days are the
\* lines matching the leg-line pattern, one FlightLeg each.
C27_ClassifiedLinesKept ==
    /\ \A k \in 1..Len(AllDays) :
          /\ AllDays[k].rawLines # <<>>
          /\ Len(ReportsHeld(AllDays[k])) <= 1
    /\ Flatten([k \in 1..Len(AllDays) |-> AllDays[k].rawLines])
          = LinesOfClass(Consumed, Classified)
    /\ LegsOfDays(AllDays)
          = [k \in 1..Len(LinesOfClass(Consumed, {"leg"})) |->
                parseFlightLeg(LinesOfClass(Consumed, {"leg"})[k])]
    /\ \A k \in 1..Len(LegsOfDays(AllDays)) : isLegLine(LegsOfDays(AllDays)[k].raw)

C27_Witness ==
    /\ dPc = "done"
    /\ dLines = <<"RPT 0600", "1 12/25 737", "2 12/26 737 55 BOS 0700 LGA 0815 1.15 X Y">>
    /\ Len(duties) = 1
    /\ Len(duties[1].legs) = 1
    /\ duties[1].rawLines = <<"RPT 0600", "2 12/26 737 55 BOS 0700 LGA 0815 1.15 X Y">>

----------------------------------------------------------------------------
(* splitSequences *)

\* text.split(/\r?\n/)
RECURSIVE SplitNewlines(_)
SplitNewlines(text) ==
    IF \A i \in 1..Len(text) : Ch(text, i) # "\n" THEN <<text>>
    ELSE LET n == CHOOSE i \in 1..Len(text) :
                      /\ Ch(text, i) = "\n"
                      /\ \A j \in 1..(i - 1) : Ch(text, j) # "\n"
             cut == IF Ch(text, n - 1) = "\r" THEN n - 2 ELSE n - 1
         IN <<SubSeq(text, 1, cut)>> \o SplitNewlines(SubSeq(text, n + 1, Len(text)))

\* .map((line) => line.trim()).filter(Boolean)
RECURSIVE TrimAndFilter(_)
TrimAndFilter(ls) ==
    IF ls = <<>> THEN <<>>
    ELSE (IF Trim(Head(ls)) = "" THEN <<>> ELSE <<Trim(Head(ls))>>)
         \o TrimAndFilter(Tail(ls))

\* /^SEQ\b/
IsSeqStart(line) == MatchLit(line, 1, "SEQ") /\ WordBoundary(line, 4)

\* /\bTTL\b/
HasTotalsMarker(line) ==
    \E i \in 1..Len(line) :
        MatchLit(line, i, "TTL") /\ WordBoundary(line, i) /\ WordBoundary(line, i + 3)

\* The local state of splitSequences as one value
SplitState == [sequences |-> sequences, current |-> sCurrent]

SeqStartBranch_DropsOpenBlock(st, line) ==
    [sequences |-> st.sequences, current |-> <<line>>]

\* if (isSeqStart) { if (current.length) sequences.push(current); current = [line]; continue; }
SeqStartBranch(st, line) ==
    [sequences |-> IF st.current # <<>> THEN Append(st.sequences, st.current)
                   ELSE st.sequences,
     current |-> <<line>>]

OtherLineBranch_NoTotalsFlush(st, line) ==
    IF st.current # <<>> THEN [st EXCEPT !.current = Append(@, line)] ELSE st

\* if (current.length) { current.push(line); if (/\bTTL\b/.test(line)) { ... } }
OtherLineBranch(st, line) ==
    IF st.current # <<>>
    THEN IF HasTotalsMarker(line)
         THEN [sequences |-> Append(st.sequences, Append(st.current, line)),
               current |-> <<>>]
         ELSE [st EXCEPT !.current = Append(@, line)]
    ELSE st

\* after the loop: if (current.length) sequences.push(current)
FinishSplit(st) ==
    IF st.current # <<>>
    THEN [sequences |-> Append(st.sequences, st.current), current |-> st.current]
    ELSE st

\* The raw lines the model builds the page text from
SplitVocab ==
    {"SEQ 1234 2 CA2 FO1",
     " SEQ 77 TTL ",
     "RPT 0600\r",
     "TTL 12.30 DUTY 9.15",
     "  ",
     "SEQUENCE SUBTTL"}

SplitInit ==
    /\ sRaw \in SeqsUpTo(SplitVocab, MaxTextLines)
    /\ sText = JoinFrom(sRaw, 1, "\n")
    /\ sLines = <<>>
    /\ sIdx = 1
    /\ sPc = "split"
    /\ sequences = <<>>
    /\ sCurrent = <<>>

SetSplitState(st) ==
    /\ sequences' = st.sequences
    /\ sCurrent' = st.current

\* const lines = text.split(/\r?\n/).map(...).filter(Boolean)
SplitText ==
    /\ sPc = "split"
    /\ sLines' = TrimAndFilter(SplitNewlines(sText))
    /\ sPc' = "loop"
    /\ UNCHANGED <<sRaw, sText, sIdx, sequences, sCurrent, mvars, dvars, nvars>>

SplitAtLine ==
    /\ sPc = "loop"
    /\ sIdx <= Len(sLines)

SplitSeqStart ==
    /\ SplitAtLine
    /\ IsSeqStart(sLines[sIdx])
    /\ SetSplitState(SeqStartBranch(SplitState, sLines[sIdx]))
    /\ sIdx' = sIdx + 1
    /\ UNCHANGED <<sRaw, sText, sLines, sPc, mvars, dvars, nvars>>

SplitOtherLine ==
    /\ SplitAtLine
    /\ ~IsSeqStart(sLines[sIdx])
    /\ SetSplitState(OtherLineBranch(SplitState, sLines[sIdx]))
    /\ sIdx' = sIdx + 1
    /\ UNCHANGED <<sRaw, sText, sLines, sPc, mvars, dvars, nvars>>

SplitFinish ==
    /\ sPc = "loop"
    /\ sIdx > Len(sLines)
    /\ sequences' = FinishSplit(SplitState).sequences
    /\ sPc' = "done"
    /\ UNCHANGED <<sRaw, sText, sLines, sIdx, sCurrent, mvars, dvars, nvars>>

SplitNext == SplitText \/ SplitSeqStart \/ SplitOtherLine \/ SplitFinish

----------------------------------------------------------------------------
(* Claims about splitSequences *)

\* The indices of the sequence-start lines among the first n lines
SeqStartsUpTo(n) == {j \in 1..n : IsSeqStart(sLines[j])}

\* The index of the k-th sequence-start line
StartIdx(k) ==
    CHOOSE j \in SeqStartsUpTo(Len(sLines)) :
        Cardinality({i \in SeqStartsUpTo(Len(sLines)) : i <= j}) = k

\* The index of the sequence-start line after the k-th, Len(sLines)+1 when none
NextStartIdx(k) ==
    IF k < Cardinality(SeqStartsUpTo(Len(sLines))) THEN StartIdx(k + 1)
    ELSE Len(sLines) + 1

\* A totals line after the header that is not the header itself
TotalsAfterHeader(block) == {k \in 2..Len(block) : HasTotalsMarker(block[k])}

C9_Shape(block) ==
    /\ block # <<>>
    /\ IsSeqStart(block[1])
    /\ \A k \in 2..Len(block) : ~IsSeqStart(block[k])
    /\ TotalsAfterHeader(block) \subseteq {Len(block)}

\* C9: every block is non-empty, begins with a sequence-start line, holds no
\* other sequence-start line and holds a totals line after the header only as
\* its last line; a returned block without such a totals line runs from its
\* sequence-start line up to the next sequence-start line or the end of the
\* page.
C9_BlocksWellFormed ==
    /\ \A k \in 1..Len(sequences) : C9_Shape(sequences[k])
    /\ sPc = "done" =>
          \A k \in 1..Len(sequences) :
              TotalsAfterHeader(sequences[k]) = {} =>
                  /\ k <= Cardinality(SeqStartsUpTo(Len(sLines)))
                  /\ sequences[k] = SubSeq(sLines, StartIdx(k), NextStartIdx(k) - 1)

C9_Witness ==
    /\ sPc = "done"
    /\ sequences = << <<"SEQ 1234 2 CA2 FO1", "RPT 0600">>,
                      <<"SEQ 77 TTL", "TTL 12.30 DUTY 9.15">> >>

\* Line j is met while a buffer is open: a sequence-start line at or before it,
\* and no totals line between the last such line and j
BufferOpenAt(j) ==
    /\ SeqStartsUpTo(j) # {}
    /\ LET s == CHOOSE i \in SeqStartsUpTo(j) : \A h \in SeqStartsUpTo(j) : h <= i
       IN \A t \in (s + 1)..(j - 1) : ~HasTotalsMarker(sLines[t])

\* The lines among the first n that are not dropped, in order
RECURSIVE KeptUpTo(_)
KeptUpTo(n) ==
    IF n = 0 THEN <<>>
    ELSE KeptUpTo(n - 1) \o (IF BufferOpenAt(n) THEN <<sLines[n]>> ELSE <<>>)

\* C10: the lines are the non-blank trimmed lines of the page; there is one
\* block per sequence-start line, in page order, each beginning with its
\* sequence-start line; the blocks concatenated are the lines minus exactly
\* those met while no buffer is open.
C10_OneBlockPerSeqLine ==
    /\ sPc # "split" => sLines = TrimAndFilter(sRaw)
    /\ sPc = "loop" =>
          /\ Len(sequences) + (IF sCurrent = <<>> THEN 0 ELSE 1)
                = Cardinality(SeqStartsUpTo(sIdx - 1))
          /\ Flatten(sequences) \o sCurrent = KeptUpTo(sIdx - 1)
    /\ sPc = "done" =>
          /\ Len(sequences) = Cardinality(SeqStartsUpTo(Len(sLines)))
          /\ \A k \in 1..Len(sequences) : sequences[k][1] = sLines[StartIdx(k)]
          /\ Flatten(sequences) = KeptUpTo(Len(sLines))

C10_Witness ==
    /\ sPc = "done"
    /\ sLines = <<"RPT 0600", "SEQ 1234 2 CA2 FO1", "TTL 12.30 DUTY 9.15", "SEQUENCE SUBTTL">>
    /\ sequences = << <<"SEQ 1234 2 CA2 FO1", "TTL 12.30 DUTY 9.15">> >>

----------------------------------------------------------------------------
(* Numbers *)

\* A JavaScript number is held as its value times 1000, exactly for the
\* numerals of the inputs, which have at most three fraction digits
\* The first three fraction digits as thousandths
MilliOfFraction(frac) == DigitsToNat(SubSeq(frac \o "000", 1, 3))

\* Number(s) of a string without white space, sign or exponent:
\* <<value * 1000>>, or <<>> for NaN. Digits with an optional point among
\* them are a number ("1." is 1, ".5" is 0.5), "" is 0, "." is NaN
NumberOfString(s) ==
    LET a == SpanEnd(s, 1, IsDigit)
    IN IF a > Len(s) THEN <<DigitsToNat(s) * 1000>>
       ELSE IF /\ Ch(s, a) = "."
               /\ AllDigits(SubSeq(s, a + 1, Len(s)))
               /\ Len(s) > 1
       THEN <<DigitsToNat(SubSeq(s, 1, a - 1)) * 1000
              + MilliOfFraction(SubSeq(s, a + 1, Len(s)))>>
       ELSE <<>>

\* Number.prototype.toString of a non-negative integer
RECURSIVE NatToString(_)
NatToString(n) ==
    IF n < 10 THEN Ch("0123456789", n + 1)
    ELSE NatToString(n \div 10) \o Ch("0123456789", (n % 10) + 1)

\* String.prototype.padStart(width, "0"): never shortens the string
RECURSIVE PadStart(_, _)
PadStart(s, width) == IF Len(s) >= width THEN s ELSE PadStart("0" \o s, width)

----------------------------------------------------------------------------
(* parseSequenceHeader and parseTotals *)

\* headerLine.split(/\s+/): unlike Tokens, keeps the empty string before
\* leading and after trailing white space
SplitWhitespace(s) ==
    (IF s = "" \/ IsSpace(Ch(s, 1)) THEN <<"">> ELSE <<>>)
    \o Tokens(s)
    \o (IF s # "" /\ IsSpace(Ch(s, Len(s))) THEN <<"">> ELSE <<>>)

\* .replace(/[^0-9]/g, "")
RECURSIVE StripNonDigits(_)
StripNonDigits(s) ==
    IF s = "" THEN ""
    ELSE (IF IsDigit(Ch(s, 1)) THEN Ch(s, 1) ELSE "") \o StripNonDigits(Tail(s))

SequenceNumberOf_DigitsOfSecondToken(tokens) ==
    IF Len(tokens) >= 2 /\ tokens[2] # "" THEN StripNonDigits(tokens[2])
    ELSE StripNonDigits(tokens[1])

\* tokens[1] || tokens[0].replace(/[^0-9]/g, "")
SequenceNumberOf(tokens) ==
    IF Len(tokens) >= 2 /\ tokens[2] # "" THEN tokens[2]
    ELSE StripNonDigits(tokens[1])

PositionCodes == <<"CA", "FO", "RL", "AP", "RS">>

\* /^(CA|FO|RL|AP|RS)(\d+)/.exec(token): <<[code, digits]>> or <<>>
PositionMatch(token) ==
    IF /\ \E k \in 1..Len(PositionCodes) : MatchLit(token, 1, PositionCodes[k])
       /\ IsDigit(Ch(token, 3))
    THEN <<[code |-> SubSeq(token, 1, 2),
            digits |-> SubSeq(token, 3, SpanEnd(token, 3, IsDigit) - 1)]>>
    ELSE <<>>

\* /^\d+$/.test(token)
IsNumericToken(token) == token # "" /\ AllDigits(token)

\* positions[code] = count on a positions object held as a function
SetPosition(positions, code, count) ==
    [c \in (DOMAIN positions) \cup {code} |->
        IF c = code THEN count ELSE positions[c]]

TakesInstances_EveryNumeric(acc, token) == IsNumericToken(token)

\* /^\d+$/.test(token) && instancesInMonth === undefined
TakesInstances(acc, token) == IsNumericToken(token) /\ acc.instancesInMonth = <<>>

HeaderToken_SumsPositions(acc, token, positionMatch) ==
    IF TakesInstances(acc, token)
    THEN [acc EXCEPT !.instancesInMonth = <<DigitsToNat(token)>>]
    ELSE IF positionMatch # <<>>
    THEN [acc EXCEPT !.positions =
             SetPosition(@, positionMatch[1].code,
                 (IF positionMatch[1].code \in DOMAIN @
                  THEN @[positionMatch[1].code] ELSE 0)
                 + DigitsToNat(positionMatch[1].digits))]
    ELSE acc

\* The body of the for-loop over tokens[2..] for one token
HeaderToken(acc, token, positionMatch) ==
    IF TakesInstances(acc, token)
    THEN [acc EXCEPT !.instancesInMonth = <<DigitsToNat(token)>>]
    ELSE IF positionMatch # <<>>
    THEN [acc EXCEPT !.positions =
             SetPosition(@, positionMatch[1].code, DigitsToNat(positionMatch[1].digits))]
    ELSE acc

\* for (let i = 2; i < tokens.length; i += 1), i being 0-based
RECURSIVE HeaderLoop(_, _, _)
HeaderLoop(tokens, i, acc) ==
    IF i >= Len(tokens) THEN acc
    ELSE HeaderLoop(tokens, i + 1,
                    HeaderToken(acc, tokens[i + 1], PositionMatch(tokens[i + 1])))

\* The empty positions object
NoPositions == [c \in {} |-> 0]

HeaderOfTokens(tokens, acc) ==
    [sequenceNumber |-> SequenceNumberOf(tokens),
     instancesInMonth |-> acc.instancesInMonth,
     positions |-> IF DOMAIN acc.positions # {} THEN <<acc.positions>> ELSE <<>>]

HeaderOf(tokens) ==
    HeaderOfTokens(tokens,
        HeaderLoop(tokens, 2, [instancesInMonth |-> <<>>, positions |-> NoPositions]))

parseSequenceHeader(headerLine) == HeaderOf(SplitWhitespace(headerLine))

\* A numeral \d+(?:\.\d+)? starting at position i, a digit being there
NumeralAt(s, i, a) ==
    IF Ch(s, a) = "." /\ IsDigit(Ch(s, a + 1))
    THEN SubSeq(s, i, SpanEnd(s, a + 1, IsDigit) - 1)
    ELSE SubSeq(s, i, a - 1)

\* /KEY\s*(\d+(?:\.\d+)?)/ matched at position i: <<Number(capture)>> or <<>>
KeyNumberWith(s, i, isKey, d) ==
    IF isKey /\ IsDigit(Ch(s, d))
    THEN NumberOfString(NumeralAt(s, d, SpanEnd(s, d, IsDigit)))
    ELSE <<>>

KeyNumberAt(s, i, key, ignoreCase) ==
    KeyNumberWith(s, i,
                  IF ignoreCase THEN MatchLitCI(s, i, key) ELSE MatchLit(s, i, key),
                  SpanEnd(s, i + Len(key), IsSpace))

\* The leftmost match of the pattern in the line
KeyNumberMatch(line, key, ignoreCase) ==
    FirstResult([i \in 1..Len(line) |-> KeyNumberAt(line, i, key, ignoreCase)])

TotalsOf(credit, duty, block) ==
    IF credit = <<>> /\ duty = <<>> /\ block = <<>> THEN <<>>
    ELSE <<[credit |-> credit, dutyHours |-> duty, blockHours |-> block]>>

parseTotals_ZeroForMissing(line) ==
    LET zero(m) == IF m = <<>> THEN <<0>> ELSE m
    IN <<[credit |-> zero(KeyNumberMatch(line, "TTL", FALSE)),
          dutyHours |-> zero(KeyNumberMatch(line, "DUTY", TRUE)),
          blockHours |-> zero(KeyNumberMatch(line, "BLK", TRUE))]>>

\* <<totals>>, or <<>> for undefined; an unset field is <<>>
parseTotals(line) ==
    TotalsOf(KeyNumberMatch(line, "TTL", FALSE),
             KeyNumberMatch(line, "DUTY", TRUE),
             KeyNumberMatch(line, "BLK", TRUE))

----------------------------------------------------------------------------
(* parseDutyDays, splitSequences and parseSequence as functions *)

\* The body of the for-loop of parseDutyDays for one line
DutyLine(st, trimmedLine, class) ==
    CASE class = "blank" -> st
      [] class = "report" -> ReportBranch(st, trimmedLine)
      [] class = "leg" -> LegBranch(st, trimmedLine)
      [] class = "release" -> ReleaseBranch(st, trimmedLine)
      [] class = "hotel" -> HotelBranch(st, trimmedLine)
      [] class = "other" -> OtherBranch(st, trimmedLine)

RECURSIVE DutyLoop(_, _, _)
DutyLoop(lines, i, st) ==
    IF i > Len(lines) THEN st
    ELSE DutyLoop(lines, i + 1, DutyLine(st, Trim(lines[i]), LineClass(Trim(lines[i]))))

parseDutyDays(lines) ==
    finalizeCurrentDay(
        DutyLoop(lines, 1,
                 [duties |-> <<>>, current |-> <<>>, currentDayNumber |-> Null])).duties

\* The body of the for-loop of splitSequences for one line
SplitLine(st, line, isSeqStart) ==
    IF isSeqStart THEN SeqStartBranch(st, line) ELSE OtherLineBranch(st, line)

RECURSIVE SplitLoop(_, _, _)
SplitLoop(lines, i, st) ==
    IF i > Len(lines) THEN st
    ELSE SplitLoop(lines, i + 1, SplitLine(st, lines[i], IsSeqStart(lines[i])))

splitSequences(text) ==
    FinishSplit(SplitLoop(TrimAndFilter(SplitNewlines(text)), 1,
                          [sequences |-> <<>>, current |-> <<>>])).sequences

\* rest.find((line) => /\bTTL\b/.test(line)): <<line>> or <<>> for undefined
FindTotalsLine(rest) ==
    FirstResult([k \in 1..Len(rest) |->
                    IF HasTotalsMarker(rest[k]) THEN <<rest[k]>> ELSE <<>>])

\* rest.indexOf(totalsLine), 0-based; the line is in rest
IndexOf(rest, line) ==
    (CHOOSE k \in 1..Len(rest) :
        rest[k] = line /\ \A j \in 1..(k - 1) : rest[j] # line) - 1

DutyLinesOf_KeepsTotalsLine(rest, totalsLine) ==
    IF totalsLine # <<>> THEN SubSeq(rest, 1, IndexOf(rest, totalsLine[1]) + 1) ELSE rest

\* totalsLine ? rest.slice(0, rest.indexOf(totalsLine)) : rest
DutyLinesOf(rest, totalsLine) ==
    IF totalsLine # <<>> THEN SubSeq(rest, 1, IndexOf(rest, totalsLine[1])) ELSE rest

\* The constants of the body of parseSequence
SequenceLocals(block, totalsLine) ==
    [headerInfo |-> parseSequenceHeader(block[1]),
     totalsLine |-> totalsLine,
     totals |-> IF totalsLine # <<>> THEN parseTotals(totalsLine[1]) ELSE <<>>,
     dutyLines |-> DutyLinesOf(Tail(block), totalsLine)]

SequenceOf(block, loc) ==
    [sequenceNumber |-> loc.headerInfo.sequenceNumber,
     instancesInMonth |-> loc.headerInfo.instancesInMonth,
     positions |-> loc.headerInfo.positions,
     totals |-> loc.totals,
     dutyDays |-> parseDutyDays(loc.dutyLines),
     rawLines |-> block]

parseSequence(block) ==
    SequenceOf(block, SequenceLocals(block, FindTotalsLine(Tail(block))))

----------------------------------------------------------------------------
(* hoursToClock, parseClock, parseLayover, toUploadedSequence *)

\* The argument of hoursToClock: undefined, a number (value times 1000) or a string
JsUndefined == [type |-> "undefined"]

JsNull == [type |-> "null"]

JsNumberValue(milli) == [type |-> "number", milli |-> milli]

JsString(s) == [type |-> "string", str |-> s]

\* An optional number <<>> | <<milli>> as such an argument
OfOptionalNumber(n) == IF n = <<>> THEN JsUndefined ELSE JsNumberValue(n[1])

\* An optional string Undefined | s as such an argument
OfOptionalString(s) == IF s = Undefined THEN JsUndefined ELSE JsString(s)

\* The values below 20 hours with at most three fraction digits whose double
\* product with 60 falls just below the tie k + 0.5 it equals exactly
\* (1.025 * 60 is 61.49999999999999), so that Math.round rounds them down
TiesRoundedDown == {1025, 4225, 8075, 8325, 16025, 16275, 16525, 16775, 17025}

RoundMinutes_Truncates(milli) == (60 * milli) \div 1000

\* Math.round(numeric * 60)
RoundMinutes(milli) ==
    IF milli \in TiesRoundedDown THEN (60 * milli) \div 1000
    ELSE (60 * milli + 500) \div 1000

ClockOfMinutes_HoursModulo100(totalMinutes) ==
    PadStart(NatToString((totalMinutes \div 60) % 100), 2) \o ":"
        \o PadStart(NatToString(totalMinutes % 60), 2)

\* `${hours.toString().padStart(2, "0")}:${minutes.toString().padStart(2, "0")}`
ClockOfMinutes(totalMinutes) ==
    PadStart(NatToString(totalMinutes \div 60), 2) \o ":"
        \o PadStart(NatToString(totalMinutes % 60), 2)

HoursToClockOf(numeric) ==
    IF numeric = <<>> THEN <<>> ELSE <<ClockOfMinutes(RoundMinutes(numeric[1]))>>

\* <<clock>>, or <<>> for null
hoursToClock(value) ==
    IF value.type \in {"undefined", "null"} THEN <<>>
    ELSE HoursToClockOf(IF value.type = "string" THEN NumberOfString(value.str)
                        ELSE <<value.milli>>)

\* value.split("/")[0]
BeforeSlash(value) ==
    SubSeq(value, 1, SpanEnd(value, 1, LAMBDA c : c # "/") - 1)

\* /^[0-9]{3,4}$/.test(clean)
IsClockDigits(clean) == Len(clean) \in {3, 4} /\ AllDigits(clean)

ClockOfClean_AnyDigits(clean) ==
    IF AllDigits(clean)
    THEN <<SubSeq(PadStart(clean, 4), 1, 2) \o ":"
           \o SubSeq(PadStart(clean, 4), 3, Len(PadStart(clean, 4)))>>
    ELSE <<>>

ClockOfClean(clean) ==
    IF IsClockDigits(clean)
    THEN <<SubSeq(PadStart(clean, 4), 1, 2) \o ":" \o SubSeq(PadStart(clean, 4), 3, 4)>>
    ELSE <<>>

\* <<clock>>, or <<>> for null; value is a string or Undefined
parseClock(value) ==
    IF value = Undefined \/ value = "" THEN <<>> ELSE ClockOfClean(BeforeSlash(value))

\* /(\d{1,2}\.\d{2})/ matched at position i: <<capture>> or <<>>
RestAt(s, i) ==
    IF /\ IsDigit(Ch(s, i)) /\ IsDigit(Ch(s, i + 1)) /\ Ch(s, i + 2) = "."
       /\ IsDigit(Ch(s, i + 3)) /\ IsDigit(Ch(s, i + 4))
    THEN <<SubSeq(s, i, i + 4)>>
    ELSE IF /\ IsDigit(Ch(s, i)) /\ Ch(s, i + 1) = "."
            /\ IsDigit(Ch(s, i + 2)) /\ IsDigit(Ch(s, i + 3))
    THEN <<SubSeq(s, i, i + 3)>>
    ELSE <<>>

RestMatch(raw) == FirstResult([i \in 1..Len(raw) |-> RestAt(raw, i)])

LayoverOf(tokens, restMatch) ==
    [station |-> IF tokens # <<>> THEN ToUpperCase(tokens[1]) ELSE Null,
     hotel_name |-> IF Len(tokens) >= 2 THEN JoinFrom(tokens, 2, " ") ELSE Null,
     hotel_phone |-> Null,
     transport_name |-> Null,
     transport_phone |-> Null,
     ground_rest |-> IF restMatch # <<>> THEN hoursToClock(JsString(restMatch[1]))
                     ELSE <<>>]

parseLayover_Null(raw) == <<>>

\* <<layover>>, or <<>> for null
parseLayover(raw) ==
    IF raw = Undefined \/ raw = "" THEN <<>>
    ELSE <<LayoverOf(Tokens(raw), RestMatch(raw))>>

\* x ?? null
OrNull(x) == IF x = Undefined THEN Null ELSE x

UploadedLeg(leg, legIdx) ==
    [leg_index |-> legIdx,
     equip_code |-> OrNull(leg.equipment),
     flight_number |-> OrNull(leg.flightNumber),
     dep_station |-> OrNull(leg.departureStation),
     arr_station |-> OrNull(leg.arrivalStation),
     dep_local |-> parseClock(leg.departureTime),
     arr_local |-> parseClock(leg.arrivalTime),
     block_time |-> hoursToClock(OfOptionalString(leg.blockTime)),
     ground_time |-> Null,
     meal |-> OrNull(leg.meal)]

UploadedDuty(duty, idx) ==
    [duty_index |-> idx,
     report_local |-> parseClock(duty.reportTime),
     release_local |-> parseClock(duty.releaseTime),
     legs |-> [k \in 1..Len(duty.legs) |-> UploadedLeg(duty.legs[k], k)],
     layover |-> parseLayover(duty.hotelLayover)]

\* Object.keys(record.positions).sort().join(" "), or "Unknown"
SortedPositionCodes == <<"AP", "CA", "FO", "RL", "RS">>

RECURSIVE JoinPresent(_, _, _)
JoinPresent(xs, present, sep) ==
    IF xs = <<>> THEN ""
    ELSE IF Head(xs) \notin present THEN JoinPresent(Tail(xs), present, sep)
    ELSE IF JoinPresent(Tail(xs), present, sep) = "" THEN Head(xs)
    ELSE Head(xs) \o sep \o JoinPresent(Tail(xs), present, sep)

PositionOf(positions) ==
    IF positions = <<>> THEN "Unknown"
    ELSE JoinPresent(SortedPositionCodes, DOMAIN positions[1], " ")

\* record.dutyDays.map((d) => d.summary).filter(Boolean).join(" | ") || null
RECURSIVE Summaries(_)
Summaries(days) ==
    IF days = <<>> THEN <<>>
    ELSE (IF Head(days).summary \in {Undefined, ""} THEN <<>> ELSE <<Head(days).summary>>)
         \o Summaries(Tail(days))

NotesOf(summaries) == IF summaries = <<>> THEN Null ELSE JoinFrom(summaries, 1, " | ")

\* Number(a) || Number(b) || 0, in thousandths
FirstTruthyNumber(a, b) ==
    IF a # <<>> /\ a # <<0>> THEN a[1]
    ELSE IF b # <<>> /\ b # <<0>> THEN b[1]
    ELSE 0

TotalField(totals, field) ==
    hoursToClock(IF totals = <<>> THEN JsUndefined ELSE OfOptionalNumber(totals[1][field]))

\* The fields of the UploadedSequence that do not depend on the month
toUploadedSequence(record) ==
    [sequence_number |-> FirstTruthyNumber(NumberOfString(record.sequenceNumber),
                             NumberOfString(StripNonDigits(record.sequenceNumber))),
     position |-> PositionOf(record.positions),
     length_days |-> Len(record.dutyDays),
     spanish_operation |-> FALSE,
     notes |-> NotesOf(Summaries(record.dutyDays)),
     totals |-> [block_time |-> TotalField(record.totals, "blockHours"),
                 credit_time |-> TotalField(record.totals, "credit"),
                 tafb |-> TotalField(record.totals, "dutyHours")],
     duties |-> [k \in 1..Len(record.dutyDays) |-> UploadedDuty(record.dutyDays[k], k)]]

----------------------------------------------------------------------------
(* splitIntoPages and parseBidPdf *)

\* rawText.replace(/\r\n/g, "\n")
RECURSIVE NormalizeNewlines(_)
NormalizeNewlines(s) ==
    IF \A i \in 1..Len(s) : ~MatchLit(s, i, "\r\n") THEN s
    ELSE LET n == CHOOSE i \in 1..Len(s) :
                      /\ MatchLit(s, i, "\r\n")
                      /\ \A j \in 1..(i - 1) : ~MatchLit(s, j, "\r\n")
         IN SubSeq(s, 1, n - 1) \o "\n" \o NormalizeNewlines(SubSeq(s, n + 2, Len(s)))

IsFormFeed(c) == c = "\f"

IsNotFormFeed(c) == c # "\f"

\* normalized.split(/\f+/)
RECURSIVE SplitFormFeeds(_)
SplitFormFeeds(s) ==
    LET a == SpanEnd(s, 1, IsNotFormFeed)
    IN IF a > Len(s) THEN <<s>>
       ELSE <<SubSeq(s, 1, a - 1)>>
            \o SplitFormFeeds(SubSeq(s, SpanEnd(s, a, IsFormFeed), Len(s)))

splitIntoPages(rawText_) == TrimAndFilter(SplitFormFeeds(NormalizeNewlines(rawText_)))

PagesToSplit_WholeText(pages_, rawText_) == <<rawText_>>

\* pages.length ? pages : [rawText]
PagesToSplit(pages_, rawText_) == IF pages_ # <<>> THEN pages_ ELSE <<rawText_>>

\* for (const block of blocks) sequences.push(parseSequence(block))
ParsedBlocks(blocks) == [k \in 1..Len(blocks) |-> parseSequence(blocks[k])]

\* The lines and form feeds the model builds pdf.text from
PacketVocab ==
    {"SEQ 1234 2 CA2 FO1",
     "SEQ 77\r",
     "RPT 2575",
     "1 12/25 737 1234 BOS 0700 E LGA 0815 1.15",
     "RLS 0900/0800",
     "LGA Hotel 10.15",
     "TTL 12.30 DUTY 9.15",
     "\f"}

PacketInit ==
    /\ rawItems \in SeqsUpTo(PacketVocab, MaxPacketItems)
    /\ rawText = JoinFrom(rawItems, 1, "\n")
    /\ pPages = <<>>
    /\ pIdx = 1
    /\ pPc = "pages"
    /\ pSequences = <<>>
    /\ uploadSequences = <<>>

\* const pages = splitIntoPages(rawText), as the list the for-loop runs over
PacketSplitPages ==
    /\ pPc = "pages"
    /\ pPages' = PagesToSplit(splitIntoPages(rawText), rawText)
    /\ pPc' = "loop"
    /\ UNCHANGED <<rawItems, rawText, pIdx, pSequences, uploadSequences,
                   mvars, dvars, svars, cvars, bvars>>

\* one pass of for (const page of ...)
PacketPage ==
    /\ pPc = "loop"
    /\ pIdx <= Len(pPages)
    /\ pSequences' = pSequences \o ParsedBlocks(splitSequences(pPages[pIdx]))
    /\ pIdx' = pIdx + 1
    /\ UNCHANGED <<rawItems, rawText, pPages, pPc, uploadSequences,
                   mvars, dvars, svars, cvars, bvars>>

\* const uploadSequences = sequences.map(...)
PacketMap ==
    /\ pPc = "loop"
    /\ pIdx > Len(pPages)
    /\ uploadSequences' = [k \in 1..Len(pSequences) |-> toUploadedSequence(pSequences[k])]
    /\ pPc' = "done"
    /\ UNCHANGED <<rawItems, rawText, pPages, pIdx, pSequences,
                   mvars, dvars, svars, cvars, bvars>>

PacketNext == PacketSplitPages \/ PacketPage \/ PacketMap

----------------------------------------------------------------------------
(* Claims about parseBidPdf *)

\* The pages of the document as the items between form feeds, each page as
\* its trimmed non-blank lines
RECURSIVE ItemPages(_)
ItemPages(items) ==
    IF \A k \in 1..Len(items) : items[k] # "\f" THEN <<TrimAndFilter(items)>>
    ELSE LET n == CHOOSE k \in 1..Len(items) :
                      items[k] = "\f" /\ \A j \in 1..(k - 1) : items[j] # "\f"
         IN <<TrimAndFilter(SubSeq(items, 1, n - 1))>>
            \o ItemPages(SubSeq(items, n + 1, Len(items)))

\* The last line of the block that the sequence-start line s of the page
\* lines ls opens: the first totals line after s, the line before the next
\* sequence-start line or the last line of the page, whichever comes first
BlockEnd(ls, s) ==
    CHOOSE e \in s..Len(ls) :
        /\ \A t \in (s + 1)..e : ~IsSeqStart(ls[t])
        /\ \A t \in (s + 1)..(e - 1) : ~HasTotalsMarker(ls[t])
        /\ \/ e = Len(ls)
           \/ IsSeqStart(ls[e + 1])
           \/ (e > s /\ HasTotalsMarker(ls[e]))

\* The blocks of one page, one per sequence-start line and in page order
RECURSIVE PageBlocksFrom(_, _)
PageBlocksFrom(ls, s) ==
    IF s > Len(ls) THEN <<>>
    ELSE IF IsSeqStart(ls[s])
    THEN <<SubSeq(ls, s, BlockEnd(ls, s))>> \o PageBlocksFrom(ls, s + 1)
    ELSE PageBlocksFrom(ls, s + 1)

RECURSIVE DocumentBlocks(_)
DocumentBlocks(pgs) ==
    IF pgs = <<>> THEN <<>>
    ELSE PageBlocksFrom(Head(pgs), 1) \o DocumentBlocks(Tail(pgs))

\* The sequence-start lines of the whole document, in document order
RECURSIVE SeqStartLines(_)
SeqStartLines(ls) ==
    IF ls = <<>> THEN <<>>
    ELSE (IF IsSeqStart(Head(ls)) THEN <<Head(ls)>> ELSE <<>>) \o SeqStartLines(Tail(ls))

\* C11: once the page loop has ended the packet has one sequence per
\* sequence-start line of the document, in document order, and the lines of
\* each sequence are the lines of one block of one page: a block ends with
\* its page at the latest, so lines at the top of the next page are not
\* attached to it.
C11_OneSequencePerSeqLinePerPage ==
    pPc = "done" =>
        /\ [k \in 1..Len(pSequences) |-> pSequences[k].rawLines]
              = DocumentBlocks(ItemPages(rawItems))
        /\ [k \in 1..Len(pSequences) |-> pSequences[k].rawLines[1]]
              = SeqStartLines(Flatten(ItemPages(rawItems)))
        /\ Len(uploadSequences) = Len(pSequences)

C11_Witness ==
    /\ pPc = "done"
    /\ rawItems = <<"SEQ 77\r", "\f", "RPT 2575", "SEQ 1234 2 CA2 FO1">>
    /\ Len(pSequences) = 2
    /\ pSequences[1].rawLines = <<"SEQ 77">>
    /\ pSequences[2].rawLines = <<"SEQ 1234 2 CA2 FO1">>

----------------------------------------------------------------------------
(* One call of parseSequence *)

\* A block as splitSequences returns it: a sequence-start line, then lines
\* that are not sequence-start lines, a totals line only as the last one
IsSplitterBlock(block) ==
    /\ block # <<>>
    /\ IsSeqStart(block[1])
    /\ \A k \in 2..Len(block) : ~IsSeqStart(block[k])
    /\ \A k \in 2..(Len(block) - 1) : ~HasTotalsMarker(block[k])

SequenceHeaderVocab == {"SEQ 1234 2 CA2 FO1", "SEQ 77 TTL 5.00"}

SequenceVocab ==
    {"RPT 0600",
     "1 12/25 737 1234 BOS 0700 E LGA 0815 1.15",
     "NOTE SUBTTL 4",
     "TTL 12.30 DUTY 9.15 BLK 8.00",
     "TTL DUTY 9.15",
     "TTL",
     "X TTL: TTL7 blk 3.5",
     "TTL 0 BLK"}

SequenceInit ==
    /\ fn = "parseSequence"
    /\ arg \in {<<h>> \o rest : h \in SequenceHeaderVocab,
                               rest \in SeqsUpTo(SequenceVocab, MaxBlockLines)}
    /\ IsSplitterBlock(arg)
    /\ locals = <<>>
    /\ ret = <<>>

\* const headerInfo, totalsLine, totals, dutyLines
SequenceLocalsStep ==
    /\ fn = "parseSequence"
    /\ locals = <<>>
    /\ locals' = <<SequenceLocals(arg, FindTotalsLine(Tail(arg)))>>
    /\ UNCHANGED <<fn, arg, ret, mvars, dvars, svars, pvars, bvars>>

\* const dutyDays = parseDutyDays(dutyLines); return { ... }
SequenceReturn ==
    /\ fn = "parseSequence"
    /\ locals # <<>>
    /\ ret = <<>>
    /\ ret' = <<SequenceOf(arg, locals[1])>>
    /\ UNCHANGED <<fn, arg, locals, mvars, dvars, svars, pvars, bvars>>

SequenceNext == SequenceLocalsStep \/ SequenceReturn

----------------------------------------------------------------------------
(* Claims about parseSequence and parseTotals *)

\* The indices in rest of the lines holding the totals marker
TotalsIndices(rest) == {k \in 1..Len(rest) : HasTotalsMarker(rest[k])}

\* The lines strictly between the header and the first totals line
ExpectedDutyLines(rest) ==
    IF TotalsIndices(rest) = {} THEN rest
    ELSE SubSeq(rest, 1, Least(TotalsIndices(rest)) - 1)

\* The positions of the line where the marker stands and, after any white
\* space, a digit follows
MarkerThenDigit(line, key, ignoreCase) ==
    {i \in 1..Len(line) :
        /\ IF ignoreCase THEN MatchLitCI(line, i, key) ELSE MatchLit(line, i, key)
        /\ \E d \in (i + Len(key))..Len(line) :
              /\ IsDigit(Ch(line, d))
              /\ \A j \in (i + Len(key))..(d - 1) : IsSpace(Ch(line, j))}

\* The field is set exactly when its marker is followed by a number
C12_FieldAsMarker(field, line, key, ignoreCase) ==
    (field # <<>>) <=> (MarkerThenDigit(line, key, ignoreCase) # {})

C12_TotalsAsLine(totals, line) ==
    /\ (totals = <<>>) <=>
          /\ MarkerThenDigit(line, "TTL", FALSE) = {}
          /\ MarkerThenDigit(line, "DUTY", TRUE) = {}
          /\ MarkerThenDigit(line, "BLK", TRUE) = {}
    /\ totals # <<>> =>
          /\ C12_FieldAsMarker(totals[1].credit, line, "TTL", FALSE)
          /\ C12_FieldAsMarker(totals[1].dutyHours, line, "DUTY", TRUE)
          /\ C12_FieldAsMarker(totals[1].blockHours, line, "BLK", TRUE)

\* C12: the grouper is given exactly the lines strictly between the header
\* and the first totals line (all lines after the header when there is
\* none); each of credit, dutyHours and blockHours is set exactly when its
\* marker is followed by a number on the totals line and is absent
\* otherwise, and totals is absent when there is no totals line or none of
\* the three is set.
C12_DutyLinesAndTotals ==
    /\ (fn = "parseSequence" /\ locals # <<>>) =>
          /\ locals[1].dutyLines = ExpectedDutyLines(Tail(arg))
          /\ TotalsIndices(Tail(arg)) = {} => locals[1].totals = <<>>
          /\ TotalsIndices(Tail(arg)) # {} =>
                C12_TotalsAsLine(locals[1].totals,
                                 Tail(arg)[Least(TotalsIndices(Tail(arg)))])
    /\ (fn = "parseSequence" /\ ret # <<>>) =>
          /\ ret[1].dutyDays = parseDutyDays(ExpectedDutyLines(Tail(arg)))
          /\ ret[1].totals = locals[1].totals

C12_Witness ==
    /\ fn = "parseSequence"
    /\ ret # <<>>
    /\ arg = <<"SEQ 77 TTL 5.00", "RPT 0600", "NOTE SUBTTL 4", "TTL DUTY 9.15">>
    /\ locals[1].dutyLines = <<"RPT 0600", "NOTE SUBTTL 4">>
    /\ ret[1].totals = <<[credit |-> <<>>, dutyHours |-> <<9150>>, blockHours |-> <<>>]>>
    /\ Len(ret[1].dutyDays) = 1

----------------------------------------------------------------------------
(* One call of parseSequenceHeader *)

\* The first token of a header: the line is the first line of a block
HeaderFirstTokens == {"SEQ", "SEQ-12"}

HeaderTokenVocab == {"1234", "A12", "2", "CA2", "CA3", "FO1", "RS10X", "XCA4"}

HeaderInit ==
    /\ fn = "parseSequenceHeader"
    /\ arg \in {JoinFrom(<<h>> \o ts, 1, " ") :
                   h \in HeaderFirstTokens,
                   ts \in SeqsUpTo(HeaderTokenVocab, MaxHeaderTokens)}
    /\ locals = <<>>
    /\ ret = <<>>

HeaderCall ==
    /\ fn = "parseSequenceHeader"
    /\ ret = <<>>
    /\ ret' = <<parseSequenceHeader(arg)>>
    /\ UNCHANGED <<fn, arg, locals, mvars, dvars, svars, pvars, bvars>>

HeaderNext == HeaderCall

----------------------------------------------------------------------------
(* Claims about parseSequenceHeader *)

\* The 1-based indices of the tokens t2.. that are purely numeric
NumericFromT2(t) == {k \in 3..Len(t) : t[k] # "" /\ AllDigits(t[k])}

\* The 1-based indices of the tokens t2.. that start with the code followed
\* by digits
CodeFromT2(t, code) ==
    {k \in 3..Len(t) : MatchLit(t[k], 1, code) /\ IsDigit(Ch(t[k], 3))}

Greatest(S) == CHOOSE k \in S : \A j \in S : j <= k

\* The digits that follow the two letters of the code
CountDigits(token) == SubSeq(token, 3, SpanEnd(token, 3, IsDigit) - 1)

CodesFromT2(t) == {c \in {"CA", "FO", "RL", "AP", "RS"} : CodeFromT2(t, c) # {}}

C13_Header(t, header) ==
    /\ header.instancesInMonth =
          IF NumericFromT2(t) = {} THEN <<>>
          ELSE <<DigitsToNat(t[Least(NumericFromT2(t))])>>
    /\ (header.positions = <<>>) <=> (CodesFromT2(t) = {})
    /\ header.positions # <<>> =>
          /\ DOMAIN header.positions[1] = CodesFromT2(t)
          /\ \A c \in CodesFromT2(t) :
                header.positions[1][c]
                   = DigitsToNat(CountDigits(t[Greatest(CodeFromT2(t, c))]))

\* C13: instancesInMonth is the first purely numeric token among t2.. and
\* absent when there is none; positions maps each code to the count of the
\* last token among t2.. that starts with the code followed by digits and is
\* absent when there is no such token; `SEQ 1234 2 CA2 FO1` gives "1234", 2
\* and {CA: 2, FO: 1}.
C13_InstancesAndPositions ==
    (fn = "parseSequenceHeader" /\ ret # <<>>) =>
        /\ C13_Header(Tokens(arg), ret[1])
        /\ arg = "SEQ 1234 2 CA2 FO1" =>
              /\ ret[1].sequenceNumber = "1234"
              /\ ret[1].instancesInMonth = <<2>>
              /\ ret[1].positions = <<[c \in {"CA", "FO"} |-> IF c = "CA" THEN 2 ELSE 1]>>

C13_Witness ==
    /\ fn = "parseSequenceHeader"
    /\ arg = "SEQ 1234 2 CA2 CA3"
    /\ ret # <<>>
    /\ ret[1].instancesInMonth = <<2>>
    /\ ret[1].positions = <<[c \in {"CA"} |-> 3]>>

\* C14: the sequenceNumber of a record consists of digit characters only.
C14_SequenceNumberIsDigits ==
    (fn = "parseSequenceHeader" /\ ret # <<>>) => AllDigits(ret[1].sequenceNumber)

----------------------------------------------------------------------------
(* One call of parseFlightLeg *)

\* The six tokens a leg line begins with
LegSlotTokens == <<"1", "12/25", "737", "1234", "BOS", "0700">>

LegTokenVocab == {"E", "LGA", "0815", "1.15"}

\* The token lists of the lines the model calls parseFlightLeg with
LegTokenLists ==
    {SubSeq(LegSlotTokens, 1, n) : n \in 0..Len(LegSlotTokens)}
    \cup {LegSlotTokens \o ts : ts \in SeqsUpTo(LegTokenVocab, MaxLegExtraTokens)}

\* parseFlightLeg is called with the lines isLegLine accepts
LegInit ==
    /\ fn = "parseFlightLeg"
    /\ arg \in {JoinFrom(ts, 1, sep) : ts \in LegTokenLists, sep \in {" ", " \t"}}
    /\ isLegLine(arg)
    /\ locals = <<>>
    /\ ret = <<>>

LegCall ==
    /\ fn = "parseFlightLeg"
    /\ ret = <<>>
    /\ ret' = <<parseFlightLeg(arg)>>
    /\ UNCHANGED <<fn, arg, locals, mvars, dvars, svars, pvars, bvars>>

LegNext == LegCall

----------------------------------------------------------------------------
(* Claims about parseFlightLeg *)

\* The fields of a leg in slot order
LegSlots(leg) ==
    <<leg.day, leg.date, leg.equipment, leg.flightNumber, leg.departureStation,
      leg.departureTime, leg.meal, leg.arrivalStation, leg.arrivalTime,
      leg.blockTime, leg.remarks>>

\* The 1-based index of the token right after the arrival-time slot
AfterArrivalTime(leg) == IF leg.meal # Undefined THEN 10 ELSE 9

C15_Leg(t, leg) ==
    /\ JoinFrom(DropUndefined(LegSlots(leg)), 1, " ") = JoinFrom(t, 1, " ")
    /\ (leg.meal # Undefined) <=>
          (Len(t) >= 7 /\ Len(t[7]) = 1 /\ IsUpper(t[7]))
    /\ leg.meal # Undefined => leg.meal = t[7]
    /\ (leg.blockTime # Undefined) <=>
          (Len(t) >= AfterArrivalTime(leg) /\ IsDigit(Ch(t[AfterArrivalTime(leg)], 1)))
    /\ leg.blockTime # Undefined => leg.blockTime = t[AfterArrivalTime(leg)]

\* C15: the set fields of the leg, read in slot order and joined by single
\* spaces, are the tokens of the line joined by single spaces; meal is set
\* exactly when the token after the departure-time slot is one uppercase
\* letter and blockTime exactly when the token after the arrival-time slot
\* starts with a digit; `1 12/25 737 1234 BOS 0700 E LGA 0815 1.15` gives
\* meal "E", blockTime "1.15" and no remarks.
C15_TokensLeftToRight ==
    (fn = "parseFlightLeg" /\ ret # <<>>) =>
        /\ C15_Leg(Tokens(arg), ret[1])
        /\ arg = "1 12/25 737 1234 BOS 0700 E LGA 0815 1.15" =>
              /\ ret[1].meal = "E"
              /\ ret[1].blockTime = "1.15"
              /\ ret[1].remarks = Undefined

C15_Witness ==
    /\ fn = "parseFlightLeg"
    /\ arg = "1 12/25 737 1234 BOS 0700 E LGA 0815 1.15"
    /\ ret # <<>>
    /\ ret[1].arrivalStation = "LGA"
    /\ ret[1].blockTime = "1.15"

----------------------------------------------------------------------------
(* One call of hoursToClock or parseClock *)

\* Numbers in thousandths of an hour: every thousandth up to MaxMilliHours,
\* and whole, half and nearly whole hours up to MaxWholeHours
HourMillis ==
    (0..MaxMilliHours)
    \cup {1000 * h + f : h \in 0..MaxWholeHours, f \in {0, 500, 999}}

HourStrings == {"1.15", "0815", "8.00", "100", "", "abc", "1.15X", "12/25", "1.", ".5", "."}

HoursToClockInit ==
    /\ fn = "hoursToClock"
    /\ arg \in {JsUndefined, JsNull}
               \cup {JsNumberValue(n) : n \in HourMillis}
               \cup {JsString(s) : s \in HourStrings}
    /\ locals = <<>>
    /\ ret = <<>>

HoursToClockCall ==
    /\ fn = "hoursToClock"
    /\ ret = <<>>
    /\ ret' = <<hoursToClock(arg)>>
    /\ UNCHANGED <<fn, arg, locals, mvars, dvars, svars, pvars, bvars>>

\* Strings of the characters of cs of length at most n
RECURSIVE StringsUpTo(_, _)
StringsUpTo(cs, n) ==
    IF n = 0 THEN {""}
    ELSE StringsUpTo(cs, n - 1) \cup {s \o c : s \in StringsUpTo(cs, n - 1), c \in cs}

ClockVocab ==
    {d \o suffix : d \in StringsUpTo({"0", "6", "9"}, MaxClockDigits),
                   suffix \in {"", "/0500", "/", "a", ":30"}}
    \cup {"1630", "930", "0600/0500", Undefined}

ParseClockInit ==
    /\ fn = "parseClock"
    /\ arg \in ClockVocab
    /\ locals = <<>>
    /\ ret = <<>>

ParseClockCall ==
    /\ fn = "parseClock"
    /\ ret = <<>>
    /\ ret' = <<parseClock(arg)>>
    /\ UNCHANGED <<fn, arg, locals, mvars, dvars, svars, pvars, bvars>>

ClockInit == HoursToClockInit \/ ParseClockInit

ClockNext == HoursToClockCall \/ ParseClockCall

----------------------------------------------------------------------------
(* Claims about hoursToClock and parseClock *)

\* The call of hoursToClock has returned and its argument was a number
HoursOfNumberReturned == fn = "hoursToClock" /\ ret # <<>> /\ arg.type = "number"

\* ^\d{2}:\d{2}$
IsTwoColonTwo(s) ==
    /\ Len(s) = 5
    /\ Ch(s, 3) = ":"
    /\ \A k \in {1, 2, 4, 5} : IsDigit(Ch(s, k))

\* C17: for every number h >= 0, totals of 100 hours or more included,
\* hoursToClock(h) is two digits, a colon and two digits.
C17_AlwaysTwoColonTwo ==
    HoursOfNumberReturned => (ret[1] # <<>> /\ IsTwoColonTwo(ret[1][1]))

\* The position of the colon of a clock string
ColonAt(s) == Least({i \in 1..Len(s) : Ch(s, i) = ":"})

ClockHours(s) == DigitsToNat(SubSeq(s, 1, ColonAt(s) - 1))

ClockMinutes(s) == DigitsToNat(SubSeq(s, ColonAt(s) + 1, Len(s)))

\* The clock string s shows the minutes nearest to milli thousandths of an hour
C18_Nearest(s, milli) ==
    /\ Len(s) - ColonAt(s) = 2
    /\ ColonAt(s) >= 3
    /\ AllDigits(SubSeq(s, 1, ColonAt(s) - 1))
    /\ AllDigits(SubSeq(s, ColonAt(s) + 1, Len(s)))
    /\ ClockMinutes(s) <= 59
    /\ (ClockHours(s) * 60 + ClockMinutes(s)) * 1000 - 60 * milli \in -500..500

\* The strings Number() turns into a number, in thousandths
NumeralValue(s) ==
    CASE s = "1.15" -> <<1150>>
      [] s = "0815" -> <<815000>>
      [] s = "8.00" -> <<8000>>
      [] s = "100" -> <<100000>>
      [] s = "" -> <<0>>
      [] s = "1." -> <<1000>>
      [] s = ".5" -> <<500>>
      [] OTHER -> <<>>

\* C18: hoursToClock renders H:M with H * 60 + M the minutes nearest to
\* h * 60 and M at most 59 (1.5 gives "01:30", 0 gives "00:00", 1.999
\* gives "02:00"); undefined, null and strings that are not numbers give null.
C18_NearestMinute ==
    (fn = "hoursToClock" /\ ret # <<>>) =>
        /\ arg.type \in {"undefined", "null"} => ret[1] = <<>>
        /\ arg.type = "number" =>
              /\ ret[1] # <<>>
              /\ C18_Nearest(ret[1][1], arg.milli)
              /\ arg.milli = 1500 => ret[1] = <<"01:30">>
              /\ arg.milli = 0 => ret[1] = <<"00:00">>
              /\ arg.milli = 1999 => ret[1] = <<"02:00">>
        /\ arg.type = "string" =>
              IF NumeralValue(arg.str) = <<>> THEN ret[1] = <<>>
              ELSE ret[1] # <<>> /\ C18_Nearest(ret[1][1], NumeralValue(arg.str)[1])

C18_Witness ==
    /\ fn = "hoursToClock"
    /\ arg = JsNumberValue(1999)
    /\ ret = <<<<"02:00">>>>

\* The part of the token before its first '/'
PartBeforeSlash(s) ==
    SubSeq(s, 1, Least({i \in 1..Len(s) : Ch(s, i) = "/"} \cup {Len(s) + 1}) - 1)

\* A part of 3 or 4 digits, padded to 4 and split as HH:MM
ExpectedClock(part) ==
    IF Len(part) = 4 THEN SubSeq(part, 1, 2) \o ":" \o SubSeq(part, 3, 4)
    ELSE "0" \o SubSeq(part, 1, 1) \o ":" \o SubSeq(part, 2, 3)

\* C19: parseClock returns the part before the first '/', padded to 4 digits
\* and split as HH:MM, exactly when that part is 3 or 4 digits ("1630" gives
\* "16:30", "930" gives "09:30", "0600/0500" gives "06:00"), and null for
\* every other input, the empty string and undefined included.
C19_ThreeOrFourDigits ==
    (fn = "parseClock" /\ ret # <<>>) =>
        /\ IF /\ arg # Undefined
              /\ Len(PartBeforeSlash(arg)) \in {3, 4}
              /\ AllDigits(PartBeforeSlash(arg))
           THEN ret[1] = <<ExpectedClock(PartBeforeSlash(arg))>>
           ELSE ret[1] = <<>>
        /\ arg = "1630" => ret[1] = <<"16:30">>
        /\ arg = "930" => ret[1] = <<"09:30">>
        /\ arg = "0600/0500" => ret[1] = <<"06:00">>
        /\ arg \in {"", Undefined} => ret[1] = <<>>

C19_Witness ==
    /\ fn = "parseClock"
    /\ arg = "0600/0500"
    /\ ret = <<<<"06:00">>>>

----------------------------------------------------------------------------
(* Claims about the times of the packet *)

\* null, or HH:MM with HH in 00..23 and MM in 00..59
IsTimeOfDayOrNull(t) ==
    \/ t = <<>>
    \/ /\ IsTwoColonTwo(t[1])
       /\ DigitsToNat(SubSeq(t[1], 1, 2)) <= 23
       /\ DigitsToNat(SubSeq(t[1], 4, 5)) <= 59

\* C20: every report_local, release_local, dep_local and arr_local of the
\* packet is null or a time of day HH:MM with HH in 00..23 and MM in 00..59.
C20_TimesAreTimesOfDay ==
    pPc = "done" =>
        \A s \in 1..Len(uploadSequences) :
            \A d \in 1..Len(uploadSequences[s].duties) :
                /\ IsTimeOfDayOrNull(uploadSequences[s].duties[d].report_local)
                /\ IsTimeOfDayOrNull(uploadSequences[s].duties[d].release_local)
                /\ \A l \in 1..Len(uploadSequences[s].duties[d].legs) :
                      /\ IsTimeOfDayOrNull(uploadSequences[s].duties[d].legs[l].dep_local)
                      /\ IsTimeOfDayOrNull(uploadSequences[s].duties[d].legs[l].arr_local)

----------------------------------------------------------------------------
(* Date.UTC, toISOString and parseCalendarDay *)

IsLeapYear(y) == (y % 4 = 0 /\ y % 100 # 0) \/ y % 400 = 0

\* The number of days of month m (0-based) of year y
DaysInMonth(y, m) ==
    IF m = 1 THEN (IF IsLeapYear(y) THEN 29 ELSE 28)
    ELSE IF m \in {3, 5, 8, 10} THEN 30
    ELSE 31

\* The calendar date that year y, month m (0-based, at least 0) and day d
\* denote once the month and the day are carried over, as Date.UTC carries
RECURSIVE CarryDate(_, _, _)
CarryDate(y, m, d) ==
    IF m > 11 THEN CarryDate(y + 1, m - 12, d)
    ELSE IF d < 1
    THEN (IF m = 0 THEN CarryDate(y - 1, 11, d + DaysInMonth(y - 1, 11))
          ELSE CarryDate(y, m - 1, d + DaysInMonth(y, m - 1)))
    ELSE IF d > DaysInMonth(y, m) THEN CarryDate(y, m + 1, d - DaysInMonth(y, m))
    ELSE [year |-> y, month |-> m, day |-> d]

\* new Date(Date.UTC(year, monthIndex, day)): a year of 0..99 means 1900 + year
DateUTC(year, monthIndex, day) ==
    CarryDate(IF year \in 0..99 THEN 1900 + year ELSE year, monthIndex, day)

\* date.toISOString().slice(0, 10), for the years 0..9999
IsoDate(date) ==
    PadStart(NatToString(date.year), 4) \o "-"
    \o PadStart(NatToString(date.month + 1), 2) \o "-"
    \o PadStart(NatToString(date.day), 2)

\* The number of digits, at most two, that \d{1,2} takes at position i
DigitRunAt(s, i) ==
    IF DigitsAt(s, i, 2) THEN 2 ELSE IF DigitsAt(s, i, 1) THEN 1 ELSE 0

\* /(\d{1,2})\/(\d{1,2})/ tried at position i: the first group takes two
\* digits if a slash and a digit follow them, else one
DayMatchAt(s, i) ==
    IF DigitsAt(s, i, 2) /\ Ch(s, i + 2) = "/" /\ DigitsAt(s, i + 3, 1)
    THEN <<<<SubSeq(s, i, i + 1), SubSeq(s, i + 3, i + 2 + DigitRunAt(s, i + 3))>>>>
    ELSE IF DigitsAt(s, i, 1) /\ Ch(s, i + 1) = "/" /\ DigitsAt(s, i + 2, 1)
    THEN <<<<SubSeq(s, i, i), SubSeq(s, i + 2, i + 1 + DigitRunAt(s, i + 2))>>>>
    ELSE <<>>

\* /(\d{1,2})\/(\d{1,2})/.exec(day): <<>> or <<the two groups>>
DayMatch(day) == FirstResult([i \in 1..Len(day) |-> DayMatchAt(day, i)])

\* The body of `if (match) { ... }`: Number(match[2]) is always finite, so
\* the fallback to match[1] is never taken
CalendarDayOf(match, monthIndex, year) ==
    IF match = <<>> THEN <<>>
    ELSE <<IsoDate(DateUTC(year, monthIndex, DigitsToNat(match[1][2])))>>

\* <<>> is null
parseCalendarDay(day, monthIndex, year) ==
    IF day \in {Undefined, ""} THEN <<>>
    ELSE CalendarDayOf(DayMatch(day), monthIndex, year)

\* The day tokens, month indices and years the model calls parseCalendarDay with
CalendarDayVocab ==
    {Undefined, "", "25", "7", "12/25", "1/31", "11/0", "12/", "/25", "ab",
     "123/456", "3-1"}

CalendarYears == {2024, 2025}

CalendarDayInit ==
    /\ fn = "parseCalendarDay"
    /\ arg \in [day : CalendarDayVocab, monthIndex : 0..11, year : CalendarYears]
    /\ locals = <<>>
    /\ ret = <<>>

CalendarDayCall ==
    /\ fn = "parseCalendarDay"
    /\ ret = <<>>
    /\ ret' = <<parseCalendarDay(arg.day, arg.monthIndex, arg.year)>>
    /\ UNCHANGED <<fn, arg, locals, mvars, dvars, svars, pvars, bvars>>

CalendarDayNext == CalendarDayCall

----------------------------------------------------------------------------
(* Claims about parseCalendarDay *)

\* The position of the first '/' of s, or Len(s) + 1
SlashAt(s) == Least({i \in 1..Len(s) : Ch(s, i) = "/"} \cup {Len(s) + 1})

\* s is one or two digits
IsDayNumber(s) == Len(s) \in {1, 2} /\ AllDigits(s)

----------------------------------------------------------------------------
(* Claims about the duties of the packet *)

\* The duty day has a line the grouper took as the hotel line
HasHotelLine(day) ==
    \E k \in 1..Len(day.rawLines) : LineClass(day.rawLines[k]) = "hotel"

\* C22: in every UploadedSequence length_days is the number of duties, the
\* duties carry duty_index 1..n in the order of the grouper's duty days, the
\* legs of each duty carry leg_index 1..m in line order, and layover is null
\* exactly when the duty day had no hotel line.
C22_IndicesAndLayover ==
    pPc = "done" =>
        \A s \in 1..Len(uploadSequences) :
            LET up == uploadSequences[s]
                days == pSequences[s].dutyDays
            IN /\ up.length_days = Len(up.duties)
               /\ Len(up.duties) = Len(days)
               /\ \A d \in 1..Len(up.duties) :
                     /\ up.duties[d].duty_index = d
                     /\ up.duties[d].report_local = parseClock(days[d].reportTime)
                     /\ Len(up.duties[d].legs) = Len(days[d].legs)
                     /\ \A l \in 1..Len(up.duties[d].legs) :
                           /\ up.duties[d].legs[l].leg_index = l
                           /\ up.duties[d].legs[l].flight_number
                                 = OrNull(days[d].legs[l].flightNumber)
                     /\ (up.duties[d].layover = <<>>) <=> ~HasHotelLine(days[d])

C22_Witness ==
    /\ pPc = "done"
    /\ \E s \in 1..Len(uploadSequences) :
          /\ uploadSequences[s].length_days = 1
          /\ Len(uploadSequences[s].duties[1].legs) = 1
          /\ uploadSequences[s].duties[1].layover # <<>>
          /\ uploadSequences[s].duties[1].layover[1].station = "LGA"

----------------------------------------------------------------------------
(* extractBaseFleetFromFile, buildDisplayRange and the body of parseBidPdf *)

\* fileName.replace(/\.pdf$/i, "")
StripPdfSuffix(name) ==
    IF Len(name) >= 4 /\ MatchLitCI(name, Len(name) - 3, ".PDF")
    THEN SubSeq(name, 1, Len(name) - 4)
    ELSE name

\* (\w{3})_(\d{3}) at position i
BaseFleetAt(s, i) ==
    IF /\ i + 6 <= Len(s)
       /\ \A k \in i..(i + 2) : IsWordChar(Ch(s, k))
       /\ Ch(s, i + 3) = "_"
       /\ DigitsAt(s, i + 4, 3)
    THEN <<[base |-> ToUpperCase(SubSeq(s, i, i + 2)), fleet |-> SubSeq(s, i + 4, i + 6)]>>
    ELSE <<>>

BaseFleetOf(match) ==
    IF match # <<>> THEN match[1] ELSE [base |-> "UNKNOWN", fleet |-> "UNKNOWN"]

extractBaseFleetFromFile(fileName_) ==
    BaseFleetOf(FirstResult([i \in 1..Len(StripPdfSuffix(fileName_)) |->
                                BaseFleetAt(StripPdfSuffix(fileName_), i)]))

MonthYearOf_ClockYearAlways(pageResult, fileMatch, clockYear) ==
    IF pageResult # <<>>
    THEN [month |-> pageResult[1].month, year |-> clockYear]
    ELSE IF fileMatch # <<>>
    THEN [month |-> ToUpperCase(fileMatch[1].name), year |-> clockYear]
    ELSE [month |-> "UNKNOWN", year |-> clockYear]

\* The return statements of extractMonthYear: the first page pattern that
\* returns, else the file name, else "UNKNOWN" and the wall-clock year
MonthYearOf(pageResult, fileMatch, clockYear) ==
    IF pageResult # <<>>
    THEN [month |-> pageResult[1].month, year |-> pageResult[1].year]
    ELSE IF fileMatch # <<>>
    THEN [month |-> ToUpperCase(fileMatch[1].name), year |-> DigitsToNat(fileMatch[1].year)]
    ELSE [month |-> "UNKNOWN", year |-> clockYear]

extractMonthYear(pages_, fileName_, clockYear) ==
    MonthYearOf(FirstResult([k \in 1..Len(pages_) |-> PageResult(pages_[k])]),
                AbbrevYearMatch(fileName_, 0), clockYear)

MonthIndexOf_Unclamped(month) ==
    IF \E k \in 1..Len(MONTHS) : MONTHS[k] = month
    THEN (CHOOSE k \in 1..Len(MONTHS) : MONTHS[k] = month) - 1
    ELSE 11

\* Math.max(0, MONTHS.indexOf(month))
MonthIndexOf(month) ==
    IF \E k \in 1..Len(MONTHS) : MONTHS[k] = month
    THEN (CHOOSE k \in 1..Len(MONTHS) : MONTHS[k] = month) - 1
    ELSE 0

\* start and end of the month, with daysInMonth the day of Date.UTC(year, monthIndex + 1, 0)
DisplayRangeOf(monthIndex, year, daysInMonth) ==
    [start |-> IsoDate(DateUTC(year, monthIndex, 1)),
     end |-> IsoDate(DateUTC(year, monthIndex, daysInMonth))]

buildDisplayRange(monthIndex, year) ==
    DisplayRangeOf(monthIndex, year, DateUTC(year, monthIndex + 1, 0).day)

\* calendarDates: the ISO dates of the duty days in the order a Set keeps
\* them, each once
RECURSIVE CalendarDates(_, _, _, _)
CalendarDates(dutyDays, monthIndex, year, seen) ==
    IF dutyDays = <<>> THEN seen
    ELSE LET iso == parseCalendarDay(Head(dutyDays).calendarDay, monthIndex, year)
         IN CalendarDates(Tail(dutyDays), monthIndex, year,
                IF iso = <<>> \/ (\E k \in 1..Len(seen) : seen[k] = iso[1])
                THEN seen ELSE Append(seen, iso[1]))

\* The calendar field of the UploadedSequence
CalendarOf(record, monthIndex, year, displayRange) ==
    [start_dates |-> CalendarDates(record.dutyDays, monthIndex, year, <<>>),
     display_range_start |-> displayRange.start,
     display_range_end |-> displayRange.end]

\* The UploadedSequence with all its fields
UploadedSequenceOf(record, monthIndex, year, displayRange) ==
    [calendar |-> CalendarOf(record, monthIndex, year, displayRange)]
    @@ toUploadedSequence(record)

\* const sequences, after the loop over the pages
RECURSIVE SequencesOfPages(_)
SequencesOfPages(pagesToSplit) ==
    IF pagesToSplit = <<>> THEN <<>>
    ELSE ParsedBlocks(splitSequences(Head(pagesToSplit)))
         \o SequencesOfPages(Tail(pagesToSplit))

\* The returned packet, given the constants of the body
PacketOf(fileName_, baseFleet, monthYear, displayRange, records) ==
    [metadata |-> [base |-> baseFleet.base,
                   fleet |-> baseFleet.fleet,
                   month |-> monthYear.month,
                   year |-> monthYear.year,
                   bid_period_start |-> displayRange.start,
                   bid_period_end |-> displayRange.end,
                   source_document |-> fileName_],
     sequences |-> [k \in 1..Len(records) |->
                       UploadedSequenceOf(records[k], MonthIndexOf(monthYear.month),
                                          monthYear.year, displayRange)]]

\* parseBidPdf from `const rawText` to the return: it has no await, so it
\* runs as one step; clockYear is what new Date().getFullYear() gives
PacketOfText(rawText_, fileName_, clockYear) ==
    LET pages_ == splitIntoPages(rawText_)
        monthYear == extractMonthYear(pages_, fileName_, clockYear)
    IN PacketOf(fileName_, extractBaseFleetFromFile(fileName_), monthYear,
                buildDisplayRange(MonthIndexOf(monthYear.month), monthYear.year),
                SequencesOfPages(PagesToSplit(pages_, rawText_)))

----------------------------------------------------------------------------
(* loadPdfParse and parseBidPdf, called concurrently *)

\* The calls of parseBidPdf that the process runs at the same time
Calls == 1..MaxCalls

\* The function import("pdf-parse") gives: mod.default ?? mod
PdfParseFn == "pdf-parse"

IsValidDate_Never(date) == FALSE

\* toISOString throws a RangeError for a date outside the range of time
\* values; every year strictly inside the range is valid
IsValidDate(date) == date.year > -271821 /\ date.year < 275760

HandleReturned_ReadBeforeAwait(before, after) == before

\* return cachedPdfParse, read after the assignment
HandleReturned(before, after) == after

\* What pdfParse(buffer) settles with, per document: a text or an error
BidTexts ==
    {"",
     "FDP CALENDAR 12/01-12/31 BOS 2025",
     "SEQ 1234 2 CA2 FO1\nRPT 0600\n1 12/25 737 1234 BOS 0700 E LGA 0815 1.15\nRLS 0900/0800\nTTL 12.30",
     "SEQ\n1 11/0 737 1234 BOS 0700 LGA 0815\n1 11/7 737 55 LGA 0900 BOS 1010\n2 11/7 737 55 BOS 0700 LGA 0815",
     "EFF 01NOV2024 BOS\fSEQ 77 1 CA1\n1 11/31 737 1234 BOS 0700 LGA 0815\nLGA Hotel 10.15",
     "RPT 0600\nTTL 1.00"}

BidDocuments ==
    {[ok |-> TRUE, text |-> t, error |-> ""] : t \in BidTexts}
    \cup {[ok |-> FALSE, text |-> "", error |-> "InvalidPDFException"]}

NotSettled == [state |-> "pending", packet |-> <<>>, error |-> ""]

BidInit ==
    /\ cachedPdfParse = <<>>
    /\ cacheWrites = 0
    /\ importsStarted = 0
    /\ calls \in [Calls -> [pc : {"start"},
                            buffer : BidDocuments,
                            fileName : FileVocab,
                            pdfParse : {<<>>},
                            outcome : {NotSettled}]]

\* loadPdfParse up to its await: if (!cachedPdfParse) { await import(...)
LoadTest(c) ==
    /\ calls[c].pc = "start"
    /\ IF cachedPdfParse = <<>>
       THEN /\ importsStarted' = importsStarted + 1
            /\ calls' = [calls EXCEPT ![c].pc = "import"]
       ELSE /\ importsStarted' = importsStarted
            /\ calls' = [calls EXCEPT ![c].pc = "loaded",
                                      ![c].pdfParse = cachedPdfParse]
    /\ UNCHANGED <<cachedPdfParse, cacheWrites, mvars, dvars, svars, cvars, pvars>>

\* the import has resolved: cachedPdfParse = mod.default ?? mod; return cachedPdfParse
ImportDone(c) ==
    /\ calls[c].pc = "import"
    /\ cachedPdfParse' = <<PdfParseFn>>
    /\ cacheWrites' = cacheWrites + 1
    /\ calls' = [calls EXCEPT ![c].pc = "loaded",
                              ![c].pdfParse = HandleReturned(cachedPdfParse, cachedPdfParse')]
    /\ UNCHANGED <<importsStarted, mvars, dvars, svars, cvars, pvars>>

\* const pdf = await pdfParse(buffer): the call
CallExtract(c) ==
    /\ calls[c].pc = "loaded"
    /\ calls' = [calls EXCEPT ![c].pc = "extract"]
    /\ UNCHANGED <<cachedPdfParse, cacheWrites, importsStarted,
                   mvars, dvars, svars, cvars, pvars>>

\* pdfParse(buffer) rejects: the await throws and parseBidPdf rejects with it
ExtractRejected(c) ==
    /\ calls[c].pc = "extract"
    /\ ~calls[c].buffer.ok
    /\ calls' = [calls EXCEPT ![c].pc = "settled",
                              ![c].outcome = [state |-> "rejected", packet |-> <<>>,
                                              error |-> calls[c].buffer.error]]
    /\ UNCHANGED <<cachedPdfParse, cacheWrites, importsStarted,
                   mvars, dvars, svars, cvars, pvars>>

\* What the rest of parseBidPdf settles with for a text, a file name and a
\* wall-clock year
OutcomeOfText(rawText_, fileName_, clockYear, firstDate) ==
    IF IsValidDate(firstDate)
    THEN [state |-> "resolved", packet |-> <<PacketOfText(rawText_, fileName_, clockYear)>>,
          error |-> ""]
    ELSE [state |-> "rejected", packet |-> <<>>, error |-> "RangeError"]

\* The first date the body renders: the start of the display range
FirstDateOf(monthYear) == DateUTC(monthYear.year, MonthIndexOf(monthYear.month), 1)

\* The outcome for every text, file name and wall-clock year of the model
OutcomeTable ==
    [t \in BidTexts |-> [f \in FileVocab |-> [y \in ClockYears |->
        OutcomeOfText(t, f, y, FirstDateOf(extractMonthYear(splitIntoPages(t), f, y)))]]]

\* pdfParse(buffer) resolves: the rest of parseBidPdf runs to its return
ExtractResolved(c) ==
    /\ calls[c].pc = "extract"
    /\ calls[c].buffer.ok
    /\ \E clockYear \in ClockYears :
          calls' = [calls EXCEPT
                       ![c].pc = "settled",
                       ![c].outcome =
                           OutcomeTable[calls[c].buffer.text][calls[c].fileName][clockYear]]
    /\ UNCHANGED <<cachedPdfParse, cacheWrites, importsStarted,
                   mvars, dvars, svars, cvars, pvars>>

BidNext ==
    \E c \in Calls :
        \/ LoadTest(c)
        \/ ImportDone(c)
        \/ CallExtract(c)
        \/ ExtractRejected(c)
        \/ ExtractResolved(c)

----------------------------------------------------------------------------
(* Claims about parseBidPdf and loadPdfParse *)

Settled(c) == calls[c].pc = "settled"

Resolved(c) == Settled(c) /\ calls[c].outcome.state = "resolved"

\* The packet a resolved call returned
PacketOfCall(c) == calls[c].outcome.packet[1]

\* C23: a call whose extraction rejects is rejected with that same error and
\* has no packet; a call whose extraction resolves is resolved with a packet
\* whatever the text is: the empty text and a text with no SEQ line give an
\* empty list of sequences, a sequence with no totals line has null totals and
\* a duty with no report or release has null times.
C23_OnlyExtractionAborts ==
    \A c \in Calls :
        Settled(c) =>
            IF ~calls[c].buffer.ok
            THEN /\ calls[c].outcome.state = "rejected"
                 /\ calls[c].outcome.error = calls[c].buffer.error
                 /\ calls[c].outcome.packet = <<>>
            ELSE /\ Resolved(c)
                 /\ calls[c].outcome.packet # <<>>
                 /\ PacketOfCall(c).metadata.source_document = calls[c].fileName
                 /\ (\A i \in 1..Len(calls[c].buffer.text) :
                        ~MatchLit(calls[c].buffer.text, i, "SEQ"))
                       => PacketOfCall(c).sequences = <<>>
                 /\ \A s \in 1..Len(PacketOfCall(c).sequences) :
                       LET up == PacketOfCall(c).sequences[s]
                       IN /\ (\A i \in 1..Len(calls[c].buffer.text) :
                                 ~MatchLit(calls[c].buffer.text, i, "TTL"))
                                => up.totals = [block_time |-> <<>>, credit_time |-> <<>>,
                                                tafb |-> <<>>]
                          /\ (\A i \in 1..Len(calls[c].buffer.text) :
                                 ~MatchLit(calls[c].buffer.text, i, "RPT"))
                                => \A d \in 1..Len(up.duties) : up.duties[d].report_local = <<>>

C23_Witness ==
    /\ Settled(1) /\ ~calls[1].buffer.ok
    /\ calls[1].outcome.error = "InvalidPDFException"
    /\ Resolved(2) /\ calls[2].buffer.text = "" /\ calls[2].fileName = "packet.pdf"
    /\ PacketOfCall(2).sequences = <<>>
    /\ PacketOfCall(2).metadata.month = "UNKNOWN"

\* C24: cachedPdfParse is assigned at most once in the life of the process,
\* whatever the interleaving of the calls.
C24_WrittenAtMostOnce == cacheWrites <= 1

\* Every call that has left loadPdfParse holds the function
C25_HandleNonNull ==
    \A c \in Calls : calls[c].pc \in {"loaded", "extract", "settled"}
                        => calls[c].pdfParse = <<PdfParseFn>>

\* cachedPdfParse never goes back to null, and a call that finds it set
\* returns it without importing
C25_Step ==
    /\ cachedPdfParse # <<>> => cachedPdfParse' # <<>>
    /\ \A c \in Calls :
          (calls[c].pc = "start" /\ calls'[c].pc # "start" /\ cachedPdfParse # <<>>)
             => /\ importsStarted' = importsStarted
                /\ calls'[c].pc = "loaded"
                /\ calls'[c].pdfParse = cachedPdfParse

\* C25: in every interleaving of concurrent loadPdfParse calls each caller
\* obtains a non-null handle, cachedPdfParse never becomes null again once
\* set, and every call made after that returns the cached handle without
\* importing.
C25_MemoizationSafe == []C25_HandleNonNull /\ [][C25_Step]_vars

C25_Witness ==
    /\ importsStarted = 2
    /\ cacheWrites = 2
    /\ \A c \in Calls : calls[c].pc = "loaded" /\ calls[c].pdfParse = <<PdfParseFn>>

IsoOf(y, m, d) ==
    PadStart(NatToString(y), 4) \o "-" \o PadStart(NatToString(m), 2) \o "-"
    \o PadStart(NatToString(d), 2)

\* The day numbers of the duty days of the text, taken from each day's
\* calendarDay token
DayNumbersOfText(text) ==
    LET records == SequencesOfPages(PagesToSplit(splitIntoPages(text), text))
    IN [s \in 1..Len(records) |->
           {DigitsToNat(DayMatch(records[s].dutyDays[d].calendarDay)[1][2]) :
               d \in {d \in 1..Len(records[s].dutyDays) :
                         /\ records[s].dutyDays[d].calendarDay # Undefined
                         /\ DayMatch(records[s].dutyDays[d].calendarDay) # <<>>}}]

\* The start dates of sequence s of the packet, as a set
StartDates(packet, s) ==
    {packet.sequences[s].calendar.start_dates[k] :
        k \in 1..Len(packet.sequences[s].calendar.start_dates)}

\* The metadata of a packet whose month is "UNKNOWN" are those of January
UnknownIsJanuary(packet) ==
    /\ packet.metadata.year \in ClockYears
    /\ packet.metadata.bid_period_start = IsoOf(packet.metadata.year, 1, 1)
    /\ packet.metadata.bid_period_end = IsoOf(packet.metadata.year, 1, 31)

DateKey(iso) ==
    DigitsToNat(SubSeq(iso, 1, 4)) * 10000 + DigitsToNat(SubSeq(iso, 6, 7)) * 100
    + DigitsToNat(SubSeq(iso, 9, 10))

\* C29: in every UploadedSequence start_dates holds no date twice and every
\* date of it lies between display_range_start and display_range_end, the
\* first and last day of the inferred month.
C29_StartDatesInRange ==
    \A c \in Calls :
        Resolved(c) =>
            \A s \in 1..Len(PacketOfCall(c).sequences) :
                LET cal == PacketOfCall(c).sequences[s].calendar
                IN /\ \A i, j \in 1..Len(cal.start_dates) :
                         cal.start_dates[i] = cal.start_dates[j] => i = j
                   /\ \A i \in 1..Len(cal.start_dates) :
                         /\ DateKey(cal.display_range_start) <= DateKey(cal.start_dates[i])
                         /\ DateKey(cal.start_dates[i]) <= DateKey(cal.display_range_end)

----------------------------------------------------------------------------
(* src/lib/bidMonth.ts: BID_MONTH_DEFINITIONS, getBidMonthRange, getBidMonthLength *)

BidMonthDefinition(name, startMonth, startDay, endMonth, endDay) ==
    [name |-> name, startMonth |-> startMonth, startDay |-> startDay,
     endMonth |-> endMonth, endDay |-> endDay]

BID_MONTH_DEFINITIONS_MarchFromFirst ==
    <<BidMonthDefinition("January", 0, 1, 0, 30),
      BidMonthDefinition("February", 0, 31, 2, 1),
      BidMonthDefinition("March", 2, 1, 2, 31),
      BidMonthDefinition("April", 3, 1, 4, 1),
      BidMonthDefinition("May", 4, 2, 5, 1),
      BidMonthDefinition("June", 5, 2, 6, 1),
      BidMonthDefinition("July", 6, 2, 6, 31),
      BidMonthDefinition("August", 7, 1, 7, 31),
      BidMonthDefinition("September", 8, 1, 8, 30),
      BidMonthDefinition("October", 9, 1, 9, 31),
      BidMonthDefinition("November", 10, 1, 11, 1),
      BidMonthDefinition("December", 11, 2, 11, 31)>>

BID_MONTH_DEFINITIONS ==
    <<BidMonthDefinition("January", 0, 1, 0, 30),
      BidMonthDefinition("February", 0, 31, 2, 1),
      BidMonthDefinition("March", 2, 2, 2, 31),
      BidMonthDefinition("April", 3, 1, 4, 1),
      BidMonthDefinition("May", 4, 2, 5, 1),
      BidMonthDefinition("June", 5, 2, 6, 1),
      BidMonthDefinition("July", 6, 2, 6, 31),
      BidMonthDefinition("August", 7, 1, 7, 31),
      BidMonthDefinition("September", 8, 1, 8, 30),
      BidMonthDefinition("October", 9, 1, 9, 31),
      BidMonthDefinition("November", 10, 1, 11, 1),
      BidMonthDefinition("December", 11, 2, 11, 31)>>

\* A month argument: a finite number in thousandths, or NaN or Infinity
JsFinite(milli) == [kind |-> "finite", milli |-> milli]

JsNaN == [kind |-> "NaN", milli |-> 0]

JsInfinity == [kind |-> "Infinity", milli |-> 0]

\* Number.isInteger(month) is false for NaN, Infinity and fractions
normalizeMonthIndex(month) ==
    IF month.kind # "finite" \/ month.milli % 1000 # 0 \/ month.milli < 0 THEN 0
    ELSE IF month.milli \div 1000 >= Len(BID_MONTH_DEFINITIONS)
    THEN Len(BID_MONTH_DEFINITIONS) - 1
    ELSE month.milli \div 1000

\* new Date(year, monthIndex, day), as the local calendar date it denotes
LocalDate(year, monthIndex, day) ==
    CarryDate(IF year \in 0..99 THEN 1900 + year ELSE year, monthIndex, day)

RangeOfDefinition(year, definition) ==
    [start |-> LocalDate(year, definition.startMonth, definition.startDay),
     end |-> LocalDate(year, definition.endMonth, definition.endDay)]

getBidMonthRange(year, month) ==
    RangeOfDefinition(year, BID_MONTH_DEFINITIONS[normalizeMonthIndex(month) + 1])

\* The number of the day of its year that a date is (1 January is 1)
RECURSIVE DayOfYear(_)
DayOfYear(date) ==
    IF date.month = 0 THEN date.day
    ELSE DaysInMonth(date.year, date.month - 1)
         + DayOfYear([date EXCEPT !.month = date.month - 1])

\* end.getTime() - start.getTime() in minutes, for two local midnights of the
\* same year whose UTC offsets differ by offsetChange minutes
MinutesBetween(range, offsetChange) ==
    (DayOfYear(range.end) - DayOfYear(range.start)) * 1440 + offsetChange

\* Math.round(millis / (1000 * 60 * 60 * 24)) + 1
LengthOfRange(range, offsetChange) ==
    ((MinutesBetween(range, offsetChange) + 720) \div 1440) + 1

getBidMonthLength(year, month, offsetChange) ==
    LengthOfRange(getBidMonthRange(year, month), offsetChange)

\* The years, the month arguments and the changes of UTC offset (daylight
\* saving, in minutes) the model calls the functions with
BidYears == {99, 1900, 2000, 2024, 2025}

BidMonthArguments ==
    {JsFinite(1000 * m) : m \in (0 - 2)..(Len(BID_MONTH_DEFINITIONS) + 1)}
    \cup {JsFinite(1500), JsFinite(0 - 500), JsNaN, JsInfinity}

OffsetChanges == {0 - 60, 0, 60}

\* One call of getBidMonthRange
BidMonthRangeInit ==
    /\ fn = "getBidMonthRange"
    /\ arg \in [year : BidYears, month : BidMonthArguments]
    /\ locals = <<>>
    /\ ret = <<>>

BidMonthRangeCall ==
    /\ fn = "getBidMonthRange"
    /\ ret = <<>>
    /\ ret' = <<getBidMonthRange(arg.year, arg.month)>>
    /\ UNCHANGED <<fn, arg, locals, mvars, dvars, svars, pvars, bvars>>

\* getBidMonthLength called for the months 0..11 of one year in turn; locals
\* holds the range and the length of the months done
BidMonthLengthInit ==
    /\ fn = "getBidMonthLength"
    /\ arg \in [year : BidYears]
    /\ locals = <<>>
    /\ ret = <<>>

BidMonthLengthCall ==
    /\ fn = "getBidMonthLength"
    /\ Len(locals) < Len(BID_MONTH_DEFINITIONS)
    /\ \E offsetChange \in OffsetChanges :
          locals' = Append(locals,
                       [range |-> getBidMonthRange(arg.year, JsFinite(1000 * Len(locals))),
                        length |-> getBidMonthLength(arg.year, JsFinite(1000 * Len(locals)),
                                                     offsetChange)])
    /\ UNCHANGED <<fn, arg, ret, mvars, dvars, svars, pvars, bvars>>

BidMonthInit == BidMonthRangeInit \/ BidMonthLengthInit

BidMonthNext == BidMonthRangeCall \/ BidMonthLengthCall

----------------------------------------------------------------------------
(* Claims about the bid months *)

\* The calendar year a year argument denotes
YearOf(year) == IF year \in 0..99 THEN 1900 + year ELSE year

\* The day after a date of the same year
DayAfter(date) == CarryDate(date.year, date.month, date.day + 1)

RECURSIVE SumOfLengths(_)
SumOfLengths(months) ==
    IF months = <<>> THEN 0 ELSE Head(months).length + SumOfLengths(Tail(months))

\* The bid months done so far start on 1 January and follow one another with
\* no gap and no overlap; all twelve end on 31 December and their lengths sum
\* to the length of the year
C30_Partition ==
    fn = "getBidMonthLength" =>
        /\ locals # <<>> =>
              locals[1].range.start = [year |-> YearOf(arg.year), month |-> 0, day |-> 1]
        /\ \A k \in 1..(Len(locals) - 1) :
              locals[k + 1].range.start = DayAfter(locals[k].range.end)
        /\ \A k \in 1..Len(locals) :
              locals[k].length
                 = DayOfYear(locals[k].range.end) - DayOfYear(locals[k].range.start) + 1
        /\ Len(locals) = Len(BID_MONTH_DEFINITIONS) =>
              /\ locals[Len(locals)].range.end
                    = [year |-> YearOf(arg.year), month |-> 11, day |-> 31]
              /\ SumOfLengths(locals) = IF IsLeapYear(YearOf(arg.year)) THEN 366 ELSE 365

\* An out-of-range or non-integer month gives the range of month 0 or 11
C30_Clamped ==
    (fn = "getBidMonthRange" /\ ret # <<>>) =>
        LET first == RangeOfDefinition(arg.year, BID_MONTH_DEFINITIONS[1])
            last == RangeOfDefinition(arg.year, BID_MONTH_DEFINITIONS[Len(BID_MONTH_DEFINITIONS)])
        IN /\ (arg.month.kind # "finite" \/ arg.month.milli % 1000 # 0
                  \/ arg.month.milli < 0) => ret[1] = first
           /\ (arg.month.kind = "finite" /\ arg.month.milli % 1000 = 0
                  /\ arg.month.milli >= 12000) => ret[1] = last

\* C30: the twelve bid months partition the calendar year: the first starts
\* on 1 January, the last ends on 31 December, each starts the day after the
\* one before ends, and the getBidMonthLength values sum to 365 (366 in a
\* leap year); a month index out of range or not an integer is clamped to 0
\* or 11.
C30_BidMonthsPartitionYear == C30_Partition /\ C30_Clamped

C30_Witness ==
    /\ fn = "getBidMonthLength"
    /\ arg.year = 2024
    /\ Len(locals) = 12
    /\ locals[2].length = 31
    /\ SumOfLengths(locals) = 366

----------------------------------------------------------------------------
(* Specifications *)

DutyIdle ==
    /\ dLines = <<>>
    /\ dIdx = 1
    /\ dPc = "idle"
    /\ duties = <<>>
    /\ current = <<>>
    /\ currentDayNumber = Null
    /\ dSecondReports = 0
    /\ dDayChanges = 0

SplitIdle ==
    /\ sRaw = <<>>
    /\ sText = ""
    /\ sLines = <<>>
    /\ sIdx = 1
    /\ sPc = "idle"
    /\ sequences = <<>>
    /\ sCurrent = <<>>

CallIdle ==
    /\ fn = ""
    /\ arg = <<>>
    /\ locals = <<>>
    /\ ret = <<>>

PacketIdle ==
    /\ rawItems = <<>>
    /\ rawText = ""
    /\ pPages = <<>>
    /\ pIdx = 1
    /\ pPc = "idle"
    /\ pSequences = <<>>
    /\ uploadSequences = <<>>

BidIdle ==
    /\ cachedPdfParse = <<>>
    /\ cacheWrites = 0
    /\ importsStarted = 0
    /\ calls = <<>>

MonthSpecInit == MonthInit /\ DutyIdle /\ SplitIdle /\ CallIdle /\ PacketIdle /\ BidIdle

MonthSpec == MonthSpecInit /\ [][MonthNext]_vars

DutySpecInit == MonthIdle /\ DutyInit /\ SplitIdle /\ CallIdle /\ PacketIdle /\ BidIdle

DutySpec == DutySpecInit /\ [][DutyNext]_vars

SplitSpecInit == MonthIdle /\ DutyIdle /\ SplitInit /\ CallIdle /\ PacketIdle /\ BidIdle

SplitSpec == SplitSpecInit /\ [][SplitNext]_vars

PacketSpecInit == MonthIdle /\ DutyIdle /\ SplitIdle /\ CallIdle /\ PacketInit /\ BidIdle

PacketSpec == PacketSpecInit /\ [][PacketNext]_vars

SequenceSpecInit == MonthIdle /\ DutyIdle /\ SplitIdle /\ SequenceInit /\ PacketIdle /\ BidIdle

SequenceSpec == SequenceSpecInit /\ [][SequenceNext]_vars

HeaderSpecInit == MonthIdle /\ DutyIdle /\ SplitIdle /\ HeaderInit /\ PacketIdle /\ BidIdle

HeaderSpec == HeaderSpecInit /\ [][HeaderNext]_vars

LegSpecInit == MonthIdle /\ DutyIdle /\ SplitIdle /\ LegInit /\ PacketIdle /\ BidIdle

LegSpec == LegSpecInit /\ [][LegNext]_vars

ClockSpecInit == MonthIdle /\ DutyIdle /\ SplitIdle /\ ClockInit /\ PacketIdle /\ BidIdle

ClockSpec == ClockSpecInit /\ [][ClockNext]_vars

CalendarDaySpecInit == MonthIdle /\ DutyIdle /\ SplitIdle /\ CalendarDayInit /\ PacketIdle /\ BidIdle

CalendarDaySpec == CalendarDaySpecInit /\ [][CalendarDayNext]_vars

BidSpecInit == MonthIdle /\ DutyIdle /\ SplitIdle /\ CallIdle /\ PacketIdle /\ BidInit

BidSpec == BidSpecInit /\ [][BidNext]_vars

BidMonthSpecInit == MonthIdle /\ DutyIdle /\ SplitIdle /\ BidMonthInit /\ PacketIdle /\ BidIdle

BidMonthSpec == BidMonthSpecInit /\ [][BidMonthNext]_vars

====
